---- MODULE Spec2Model ----
(***************************************************************************)
(* The credential manager of teams-mcp (GraphService, services/graph.ts): *)
(* a process-wide session made of a Graph client, an isInitialized flag   *)
(* and an MSAL confidential-client application, initialised lazily by     *)
(* getAuthStatus() and getClient() from the process environment.          *)
(*                                                                         *)
(* Every `await` of the source is a point where another caller may run:   *)
(* calls holds the calls in progress, each with the await it stands at,   *)
(* and one action is the code between two awaits.  What a step gives back *)
(* to its caller is in ret, and what it does to, or gets from, the        *)
(* outside (requests, constructions, environment reads, rejected          *)
(* requests) in events; both describe the last step only.  A token is     *)
(* represented by the sequence of its segments between "." (what          *)
(* String.split(".") returns), so the empty string is <<"">> and no       *)
(* string is <<>>, which stands for `undefined`.                          *)
(***************************************************************************)
EXTENDS Integers, Sequences, FiniteSets, Bags

----------------------------------------------------------------------------
(* Bounds of the model *)

\* The calls of getAuthStatus()/getClient() that may be in progress at once
NumCallers == 2
\* The changes of the environment in one run
MaxEnvChanges == 1
\* The token requests the issuer receives in one run of the request log
MaxIssuerRequests == 4
\* The invocations of a client's token supplier in one run of the request log
MaxSupplierCalls == 2
\* The segments of a token given to validateToken
MaxSegments == 4

----------------------------------------------------------------------------
(* Values *)

\* `undefined` for a string-valued environment variable or result field
Undefined == "<undefined>"
\* `undefined` for AUTH_TOKEN and for validateToken's result
NoToken == << >>

CLIENT_CREDENTIAL_SCOPE == <<"https://graph", "microsoft", "com/", "default">>
GRAPH_AUDIENCE == "https://graph.microsoft.com"

\* JavaScript truthiness of a string-or-undefined value
Truthy(v) == v # Undefined /\ v # ""
TruthyToken(t) == t # NoToken /\ t # <<"">>

\* The payload segments the model draws from, named by what atob +
\* JSON.parse make of them.
PayloadGraph == "b64:{aud:graph}"
PayloadGraphArray == "b64:{aud:[graph,other]}"
PayloadOther == "b64:{aud:other}"
PayloadOtherArray == "b64:{aud:[other]}"
PayloadNoAud == "b64:{}"
PayloadNull == "b64:null"
PayloadNotJson == "b64:not-json"
PayloadNotBase64 == "not*base64"
PayloadGraphLast == "b64:{aud:[other,graph]}"
PayloadEmptyArray == "b64:{aud:[]}"
PayloadNumber == "b64:42"
PayloadArray == "b64:[graph]"

\* JSON.parse(atob(segment)): threw says that either step threw, isObject
\* that the value's properties can be read (reading .aud of null throws; of
\* a number or an array it gives undefined), aud is the
\* value of its aud property (a string, Undefined, or for an array the
\* sequence audArray), isArray what Array.isArray(payload.aud) says.
Payload(threw, isObject, isArray, aud, audArray) ==
  [threw |-> threw, isObject |-> isObject, isArray |-> isArray,
   aud |-> aud, audArray |-> audArray]

DecodePayload(seg) ==
  CASE seg = PayloadGraph ->
         Payload(FALSE, TRUE, FALSE, GRAPH_AUDIENCE, << >>)
    [] seg = PayloadGraphArray ->
         Payload(FALSE, TRUE, TRUE, Undefined,
                 <<GRAPH_AUDIENCE, "https://other.com">>)
    [] seg = PayloadOther ->
         Payload(FALSE, TRUE, FALSE, "https://other-service.com", << >>)
    [] seg = PayloadOtherArray ->
         Payload(FALSE, TRUE, TRUE, Undefined, <<"https://other-service.com">>)
    [] seg = PayloadNoAud ->
         Payload(FALSE, TRUE, FALSE, Undefined, << >>)
    [] seg = PayloadNull ->
         Payload(FALSE, FALSE, FALSE, Undefined, << >>)
    [] seg = PayloadGraphLast ->
         Payload(FALSE, TRUE, TRUE, Undefined,
                 <<"https://other.com", GRAPH_AUDIENCE>>)
    [] seg = PayloadEmptyArray ->
         Payload(FALSE, TRUE, TRUE, Undefined, << >>)
    [] seg = PayloadNumber ->
         Payload(FALSE, TRUE, FALSE, Undefined, << >>)
    [] seg = PayloadArray ->
         Payload(FALSE, TRUE, FALSE, Undefined, << >>)
    [] OTHER ->
         Payload(TRUE, FALSE, FALSE, Undefined, << >>)

\* const audiences = Array.isArray(payload.aud) ? payload.aud : [payload.aud]
Audiences(payload) ==
  IF payload.isArray THEN payload.audArray ELSE <<payload.aud>>

Includes(seq, x) == \E i \in 1..Len(seq) : seq[i] = x

\* A variant of validateToken that compares aud itself with the Graph
\* audience, array or not
validateTokenScalarOnly(token) ==
  IF Len(token) # 3 THEN NoToken
  ELSE LET payload == DecodePayload(token[2]) IN
       IF payload.threw \/ ~payload.isObject THEN NoToken
       ELSE IF payload.aud # GRAPH_AUDIENCE THEN NoToken
       ELSE token

validateToken(token) ==
  IF Len(token) # 3 THEN NoToken
  ELSE LET payload == DecodePayload(token[2]) IN
       IF payload.threw \/ ~payload.isObject THEN NoToken
       ELSE IF ~Includes(Audiences(payload), GRAPH_AUDIENCE) THEN NoToken
       ELSE token

ValidToken == <<"header", PayloadGraph, "signature">>
WrongAudienceToken == <<"header", PayloadOther, "signature">>
MalformedToken == <<"invalid-token">>

\* The values AUTH_TOKEN takes in the session model
TokenValues == {NoToken, <<"">>, ValidToken, WrongAudienceToken}
TenantValues == {Undefined, "t1"}
ClientIdValues == {Undefined, "c1"}
SecretValues == {Undefined, "s1"}

----------------------------------------------------------------------------
(* Session objects *)

NoClient == [id |-> 0, supplier |-> "none", token |-> NoToken]
NoApp == [constructed |-> FALSE, tenantId |-> Undefined,
          clientId |-> Undefined, clientSecret |-> Undefined]

\* Client.initWithMiddleware({authProvider}): a new client object, with the
\* fixed-token supplier of line 36 or the issuer-backed supplier of line 76
StaticClient(id, token) == [id |-> id, supplier |-> "static", token |-> token]
DynamicClient(id) == [id |-> id, supplier |-> "dynamic", token |-> NoToken]

\* new ConfidentialClientApplication({auth: {clientId, clientSecret, authority}})
ConfidentialClientApplication(e) ==
  [constructed |-> TRUE, tenantId |-> e.AZURE_TENANT_ID,
   clientId |-> e.AZURE_CLIENT_ID, clientSecret |-> e.AZURE_CLIENT_SECRET]

----------------------------------------------------------------------------
(* Results a caller receives *)

NoResult == [kind |-> "none"]
StatusFalse == [kind |-> "status", isAuthenticated |-> FALSE]
StatusTrue(t, c) ==
  [kind |-> "status", isAuthenticated |-> TRUE, tenantId |-> t, clientId |-> c]
ClientResult(c) == [kind |-> "client", client |-> c]
BoolResult(b) == [kind |-> "bool", value |-> b]
Rejection(msg) == [kind |-> "error", message |-> msg]

\* A completed call: the method and what it resolved or rejected with
Returned(method, r) == [method |-> method, result |-> r]

\* The message of getClient's error, word by word
NotAuthenticatedMessage ==
  <<"Not", "authenticated", ".", "Check", "AZURE_TENANT_ID", ",",
    "AZURE_CLIENT_ID", ",", "and", "AZURE_CLIENT_SECRET", "environment",
    "variables", ".">>
IssuerErrorMessage == <<"Invalid", "client", "secret">>

----------------------------------------------------------------------------
(* State *)

VARIABLES
  env,            \* process.env: AUTH_TOKEN and the three AZURE_* variables
  client,         \* GraphService.client
  isInitialized,  \* GraphService.isInitialized
  msalApp,        \* GraphService.msalApp
  calls,          \* the calls in progress, a bag of Call(method, at)
  ret,            \* the call the last step completed: its method and result
  events,         \* what the last step did to, or got from, the outside
  built,          \* the supplier of every client built so far, by client id
  handedOut,      \* the clients that getClient() calls have returned
  envChanges,     \* changes of the environment since the process started
  tokenAlwaysSet, \* AUTH_TOKEN has been set (non-empty) since the process started
  initFailed,     \* some initialization attempt has ended without a client
  failedAlone,    \* ... leaving no client, while no other attempt was pending
  probeFailed,    \* some probe has failed
  issuerLog,      \* the token requests the issuer has received, in order
  supplierCalls,  \* the invocations of authProvider.getAccessToken so far
  jwt,            \* the argument of a validateToken call, as its segments
  validated,      \* what that call returned, once it has
  tool,           \* the tool whose handler was invoked
  toolAt,         \* where that handler stands
  thrown,         \* what the handler's try block threw, if it did
  graphCalls,     \* the Graph requests the handler has made
  response,       \* what the handler's promise settled with
  mainAt,         \* where main() of index.ts stands
  exited,         \* the process.exit call made, if any
  registered,     \* the tool groups registered on the server, in order
  reported,       \* the variables validateEnv reported missing
  started,        \* the getAuthStatus()/getClient() calls started so far
  input,          \* the arguments and environment of a handler invocation
  local,          \* the local variables of that handler
  requests        \* the Graph requests that handler has made, in order

sessionVars == <<client, isInitialized, msalApp>>
historyVars == <<built, handedOut, envChanges, tokenAlwaysSet, initFailed,
                 failedAlone, probeFailed>>
\* The issuer's request log, kept by RequestLogSpec only
logVars == <<issuerLog, supplierCalls>>
\* What the specification of the session leaves alone
\* A call of validateToken, made by ValidateSpec only
validateVars == <<jwt, validated>>
\* An invocation of a tool handler, made by ToolSpec only
toolVars == <<tool, toolAt, thrown, graphCalls, response>>
\* The start of the process, made by StartupSpec only
startupVars == <<mainAt, exited, registered, reported>>
\* The count of calls started, kept by LiveSpec only
liveVars == <<started>>
\* The body of a handler, followed by the specifications of the handlers only
handlerVars == <<input, local, requests>>
besideSession == <<logVars, validateVars, toolVars, startupVars, liveVars,
                   handlerVars>>
besideLog == <<validateVars, toolVars, startupVars, liveVars, handlerVars>>
vars == <<env, sessionVars, calls, ret, events, historyVars, besideSession>>

\* The events of a step
Events ==
  {"attempt",          \* initializeClient went past its isInitialized check
   "validateToken",    \* validateToken(AUTH_TOKEN) was run
   "readAzureInit",    \* initializeClient read the three AZURE_* variables
   "newMsalApp",       \* a ConfidentialClientApplication was constructed
   "issuerRequest",    \* acquireTokenByClientCredential was called
   "issuerError",      \* the pending token request of initializeClient rejected
   "issuerNoResult",   \* ... or resolved with no result
   "newClient",        \* Client.initWithMiddleware was called
   "probe",            \* GET /organization was started
   "probeError",       \* the probe rejected
   "readAzureStatus"}  \* getAuthStatus read AZURE_TENANT_ID and AZURE_CLIENT_ID

NoReturn == Returned("none", NoResult)

Envs ==
  [AUTH_TOKEN : TokenValues, AZURE_TENANT_ID : TenantValues,
   AZURE_CLIENT_ID : ClientIdValues, AZURE_CLIENT_SECRET : SecretValues]

\* The environment with none of the four variables
NoConfiguration ==
  [AUTH_TOKEN |-> NoToken, AZURE_TENANT_ID |-> Undefined,
   AZURE_CLIENT_ID |-> Undefined, AZURE_CLIENT_SECRET |-> Undefined]

\* No call of validateToken has returned
NotValidated == [done |-> FALSE, value |-> NoToken]

\* No handler has been invoked
NoFailure == [from |-> "none", type |-> "none", message |-> << >>]
NoResponse == [kind |-> "pending"]
ToolsIdle ==
  /\ tool = "none"
  /\ toolAt = "idle"
  /\ thrown = NoFailure
  /\ graphCalls = 0
  /\ response = NoResponse

\* No handler body is followed
HandlerIdle ==
  /\ input = << >>
  /\ local = << >>
  /\ requests = << >>

\* The start of the process is over: the server is connected
NoExit == [code |-> 0, by |-> "none"]
StartupOver ==
  /\ mainAt = "serving"
  /\ exited = NoExit
  /\ registered = <<"auth", "users", "teams">>
  /\ reported = << >>

Init ==
  /\ env \in Envs
  /\ client = NoClient
  /\ isInitialized = FALSE
  /\ msalApp = NoApp
  /\ calls = EmptyBag
  /\ ret = NoReturn
  /\ events = {}
  /\ built = << >>
  /\ handedOut = {}
  /\ envChanges = 0
  /\ tokenAlwaysSet = TruthyToken(env.AUTH_TOKEN)
  /\ initFailed = FALSE
  /\ failedAlone = FALSE
  /\ probeFailed = FALSE
  /\ issuerLog = << >>
  /\ supplierCalls = 0
  /\ jwt = NoToken
  /\ validated = NotValidated
  /\ ToolsIdle
  /\ StartupOver
  /\ HandlerIdle
  /\ started = 0

\* A call in progress: its method, and the await it stands at
\*   issuer     await this.msalApp.acquireTokenByClientCredential (line 65)
\*   afterInit  await this.initializeClient() (lines 105, 125)
\*   probe      await this.client.api("/organization").get() (line 112)
Call(method, at) == [method |-> method, at |-> at]

Pending == BagToSet(calls)

\* Call x leaves with result r
Return(x, r) ==
  /\ ret' = Returned(x.method, r)
  /\ calls' = calls (-) SetToBag({x})

\* Call x moves on to its next await
Goto(x, at) ==
  /\ calls' = (calls (-) SetToBag({x})) (+) SetToBag({Call(x.method, at)})
  /\ ret' = NoReturn

\* The calls suspended inside initializeClient
Attempting == {x \in Pending : x.at = "issuer"}

\* No call is suspended inside initializeClient
Quiet == Attempting = {}

\* No call other than x is suspended inside initializeClient
NoOtherAttempt(x) == Attempting \subseteq {x} /\ CopiesIn(x, calls) = 1

\* The clients built, with the one a step stores added
Built(c) == IF c # client THEN Append(built, c.supplier) ELSE built

----------------------------------------------------------------------------
(* initializeClient *)

AzureConfigured(e) ==
  /\ Truthy(e.AZURE_TENANT_ID)
  /\ Truthy(e.AZURE_CLIENT_ID)
  /\ Truthy(e.AZURE_CLIENT_SECRET)

\* Variants of InitBranch, each with one of its decisions changed, under
\* which the properties of the session stated below are to fail:
\* the credential grant tried before AUTH_TOKEN,
InitBranchAzureFirst(initialized, e) ==
  IF initialized THEN "noop"
  ELSE IF AzureConfigured(e) THEN "issuer"
  ELSE IF TruthyToken(e.AUTH_TOKEN)
    THEN IF validateToken(e.AUTH_TOKEN) # NoToken THEN "static" ELSE "rejected"
  ELSE "missing"

\* no isInitialized check (line 26),
InitBranchUnguarded(initialized, e) ==
  IF TruthyToken(e.AUTH_TOKEN)
    THEN IF validateToken(e.AUTH_TOKEN) # NoToken THEN "static" ELSE "rejected"
  ELSE IF ~AzureConfigured(e) THEN "missing"
  ELSE "issuer"

\* no check that the three AZURE_* variables are present (line 49),
InitBranchNoMissingCheck(initialized, e) ==
  IF initialized THEN "noop"
  ELSE IF TruthyToken(e.AUTH_TOKEN)
    THEN IF validateToken(e.AUTH_TOKEN) # NoToken THEN "static" ELSE "rejected"
  ELSE "issuer"

\* AUTH_TOKEN validated again, and the client rebuilt, by an initialized
\* session,
InitBranchRevalidate(initialized, e) ==
  IF TruthyToken(e.AUTH_TOKEN)
    THEN IF validateToken(e.AUTH_TOKEN) # NoToken THEN "static"
         ELSE IF initialized THEN "noop" ELSE "rejected"
  ELSE IF initialized THEN "noop"
  ELSE IF ~AzureConfigured(e) THEN "missing"
  ELSE "issuer"

\* and no `return` after a token that fails validation (line 41).
InitBranchFallThrough(initialized, e) ==
  IF initialized THEN "noop"
  ELSE IF TruthyToken(e.AUTH_TOKEN) /\ validateToken(e.AUTH_TOKEN) # NoToken
    THEN "static"
  ELSE IF ~AzureConfigured(e) THEN "missing"
  ELSE "issuer"

\* The branch initializeClient takes up to its first await:
\*   noop      already initialized (line 26)
\*   static    AUTH_TOKEN set and valid: client built, Ready
\*   rejected  AUTH_TOKEN set and invalid: return
\*   missing   an AZURE_* variable missing: return
\*   issuer    application constructed, token requested, suspended
InitBranch(initialized, e) ==
  IF initialized THEN "noop"
  ELSE IF TruthyToken(e.AUTH_TOKEN)
    THEN IF validateToken(e.AUTH_TOKEN) # NoToken THEN "static" ELSE "rejected"
  ELSE IF ~AzureConfigured(e) THEN "missing"
  ELSE "issuer"

\* What each branch does to the outside
BranchEvents(branch) ==
  CASE branch = "noop" -> {}
    [] branch = "static" -> {"attempt", "validateToken", "newClient"}
    [] branch = "rejected" -> {"attempt", "validateToken"}
    [] branch = "missing" -> {"attempt", "readAzureInit"}
    [] branch = "issuer" ->
         {"attempt", "readAzureInit", "newMsalApp", "issuerRequest"}

\* A variant of InitStart that sets isInitialized before the token request
\* instead of after it
InitStartFlagEarly(c, initialized, app, e, n) ==
  LET branch == InitBranch(initialized, e) IN
  [branch |-> branch,
   client |-> IF branch = "static"
                THEN StaticClient(n + 1, validateToken(e.AUTH_TOKEN))
                ELSE c,
   isInitialized |-> (initialized \/ branch \in {"static", "issuer"}),
   msalApp |-> IF branch = "issuer" THEN ConfidentialClientApplication(e)
               ELSE app]

\* A variant of InitStart that asks the issuer through an application it
\* does not store in msalApp
InitStartAppNotKept(c, initialized, app, e, n) ==
  LET branch == InitBranch(initialized, e) IN
  [branch |-> branch,
   client |-> IF branch = "static"
                THEN StaticClient(n + 1, validateToken(e.AUTH_TOKEN))
                ELSE c,
   isInitialized |-> (initialized \/ branch = "static"),
   msalApp |-> app]

\* A variant of InitStart that discards the session when a call finds the
\* environment without any configuration
InitStartTeardown(c, initialized, app, e, n) ==
  LET branch == InitBranch(initialized, e)
      gone == ~TruthyToken(e.AUTH_TOKEN) /\ ~AzureConfigured(e)
  IN
  [branch |-> branch,
   client |-> IF branch = "static"
                THEN StaticClient(n + 1, validateToken(e.AUTH_TOKEN))
                ELSE IF gone THEN NoClient ELSE c,
   isInitialized |-> ((initialized /\ ~gone) \/ branch = "static"),
   msalApp |-> IF branch = "issuer" THEN ConfidentialClientApplication(e)
               ELSE app]

\* initializeClient up to its first await (lines 26-65), from the session
\* (c, initialized, app), the environment e and the n clients built so far:
\* the branch taken and the session it leaves.
InitStart(c, initialized, app, e, n) ==
  LET branch == InitBranch(initialized, e) IN
  [branch |-> branch,
   client |-> IF branch = "static"
                THEN StaticClient(n + 1, validateToken(e.AUTH_TOKEN))
                ELSE c,
   isInitialized |-> (initialized \/ branch = "static"),
   msalApp |-> IF branch = "issuer" THEN ConfidentialClientApplication(e)
               ELSE app]

\* What the issuer may answer to acquireTokenByClientCredential
IssuerOutcomes == {"token", "null", "error"}

\* Variants of InitResume: a failed attempt that resets the session,
InitResumeReset(outcome, c, initialized, n) ==
  IF outcome = "token"
    THEN [client |-> DynamicClient(n + 1), isInitialized |-> TRUE,
          thrown |-> FALSE]
    ELSE [client |-> NoClient, isInitialized |-> FALSE, thrown |-> FALSE]

\* a failed attempt that sets isInitialized all the same,
InitResumeLatch(outcome, c, initialized, n) ==
  IF outcome = "token"
    THEN [client |-> DynamicClient(n + 1), isInitialized |-> TRUE,
          thrown |-> FALSE]
    ELSE [client |-> c, isInitialized |-> TRUE, thrown |-> FALSE]

\* no `return` when the issuer gives no result (line 70),
InitResumeNoResultCheck(outcome, c, initialized, n) ==
  IF outcome \in {"token", "null"}
    THEN [client |-> DynamicClient(n + 1), isInitialized |-> TRUE,
          thrown |-> FALSE]
    ELSE [client |-> c, isInitialized |-> initialized, thrown |-> FALSE]

\* and no catch around the token request (line 81).
InitResumeRethrow(outcome, c, initialized, n) ==
  IF outcome = "token"
    THEN [client |-> DynamicClient(n + 1), isInitialized |-> TRUE,
          thrown |-> FALSE]
    ELSE [client |-> c, isInitialized |-> initialized,
          thrown |-> (outcome = "error")]

\* A variant of InitResume that stores the client and leaves the flag to a
\* later step
InitResumeFlagLate(outcome, c, initialized, n) ==
  IF outcome = "token"
    THEN [client |-> DynamicClient(n + 1), isInitialized |-> initialized,
          thrown |-> FALSE]
    ELSE [client |-> c, isInitialized |-> initialized, thrown |-> FALSE]

\* A variant of InitResume in which an attempt that finds the session
\* initialized by another attempt fails its caller
InitResumeExclusive(outcome, c, initialized, n) ==
  IF outcome = "token"
    THEN IF initialized
           THEN [client |-> c, isInitialized |-> initialized, thrown |-> TRUE]
           ELSE [client |-> DynamicClient(n + 1), isInitialized |-> TRUE,
                 thrown |-> FALSE]
    ELSE [client |-> c, isInitialized |-> initialized, thrown |-> FALSE]

\* initializeClient from the issuer's answer on (lines 65-83): a result
\* builds the client and sets the flag, no result returns (line 70), a
\* rejection is caught and logged (line 81).  thrown says that an exception
\* leaves initializeClient.
InitResume(outcome, c, initialized, n) ==
  IF outcome = "token"
    THEN [client |-> DynamicClient(n + 1), isInitialized |-> TRUE,
          thrown |-> FALSE]
    ELSE [client |-> c, isInitialized |-> initialized, thrown |-> FALSE]

\* The synchronous start of getAuthStatus()/getClient(): initializeClient up
\* to its first await.
initializeClient(method) ==
  LET s == InitStart(client, isInitialized, msalApp, env, Len(built)) IN
  /\ BagCardinality(calls) < NumCallers
  /\ calls' = calls (+) SetToBag({Call(method, IF s.branch = "issuer"
                                                 THEN "issuer"
                                                 ELSE "afterInit")})
  /\ ret' = NoReturn
  /\ events' = BranchEvents(s.branch)
  /\ client' = s.client
  /\ isInitialized' = s.isInitialized
  /\ msalApp' = s.msalApp
  /\ built' = Built(s.client)
  /\ initFailed' = (initFailed \/ s.branch \in {"rejected", "missing"})
  /\ failedAlone' = (failedAlone \/
                     (s.branch \in {"rejected", "missing"} /\ Quiet))
  /\ UNCHANGED <<env, handedOut, envChanges, tokenAlwaysSet, probeFailed>>

\* initializeClient resumed by the issuer's answer
initializeClientResume(x) ==
  /\ x.at = "issuer"
  /\ \E outcome \in IssuerOutcomes :
       LET r == InitResume(outcome, client, isInitialized, Len(built)) IN
       /\ client' = r.client
       /\ isInitialized' = r.isInitialized
       /\ built' = Built(r.client)
       /\ events' = (IF r.client # client THEN {"newClient"} ELSE {})
                      \cup (IF outcome = "error" THEN {"issuerError"} ELSE {})
                      \cup (IF outcome = "null" THEN {"issuerNoResult"} ELSE {})
       /\ initFailed' = (initFailed \/ outcome # "token")
       /\ failedAlone' = (failedAlone \/
                          (outcome # "token" /\ NoOtherAttempt(x)
                             /\ r.client = NoClient))
       /\ IF r.thrown
            THEN \* the exception reaches the caller of getAuthStatus/getClient
                 Return(x, Rejection(IssuerErrorMessage))
            ELSE Goto(x, "afterInit")
  /\ UNCHANGED <<env, msalApp, handedOut, envChanges, tokenAlwaysSet,
                 probeFailed>>

----------------------------------------------------------------------------
(* The token suppliers *)

IssuedToken == <<"mock-access-token">>
MsalNotInitializedMessage == <<"MSAL", "not", "initialized">>
AcquireFailedMessage ==
  <<"Failed", "to", "acquire", "access", "token", ".", "Check",
    "AZURE_TENANT_ID", ",", "AZURE_CLIENT_ID", ",", "and",
    "AZURE_CLIENT_SECRET", ".">>

Supplied(issuer, threw, token, message) ==
  [issuer |-> issuer, threw |-> threw, token |-> token, message |-> message]

\* acquireToken(): issuer says whether a request was made, threw whether the
\* promise rejects.
acquireToken(app, outcome) ==
  IF ~app.constructed
    THEN Supplied(FALSE, TRUE, NoToken, MsalNotInitializedMessage)
  ELSE IF outcome = "token" THEN Supplied(TRUE, FALSE, IssuedToken, << >>)
  ELSE IF outcome = "null" THEN Supplied(TRUE, TRUE, NoToken, AcquireFailedMessage)
  ELSE Supplied(TRUE, TRUE, NoToken, IssuerErrorMessage)

\* A variant of getAccessToken whose issuer-backed supplier keeps the token
\* of the initialization instead of asking again
getAccessTokenCached(c, app, outcome) ==
  Supplied(FALSE, FALSE, IF c.supplier = "static" THEN c.token ELSE IssuedToken,
           << >>)

\* authProvider.getAccessToken of client c: the fixed validated token
\* (line 36) or a fresh acquireToken() (line 76)
getAccessToken(c, app, outcome) ==
  IF c.supplier = "static" THEN Supplied(FALSE, FALSE, c.token, << >>)
  ELSE acquireToken(app, outcome)

\* The answers the issuer may give to the supplier of c: none unless asked
SupplierAnswers(c, app) ==
  IF getAccessToken(c, app, "token").issuer THEN IssuerOutcomes ELSE {"none"}

SupplierEvents(supplied) == IF supplied.issuer THEN {"issuerRequest"} ELSE {}

----------------------------------------------------------------------------
(* getAuthStatus, getClient, isAuthenticated *)

getAuthStatus == initializeClient("getAuthStatus")

getClient == initializeClient("getClient")

\* Variants of GetClientResult: a copy of the client returned instead of the
\* stored object,
GetClientResultCopy(c) ==
  IF c = NoClient THEN Rejection(NotAuthenticatedMessage)
  ELSE ClientResult([c EXCEPT !.id = c.id + 1])

\* and no check that a client exists (line 127).
GetClientResultUnchecked(c) == ClientResult(c)

\* The result of getClient() once initializeClient has returned (lines 127-132)
GetClientResult(c) ==
  IF c = NoClient THEN Rejection(NotAuthenticatedMessage) ELSE ClientResult(c)

\* A variant of getClientReturn that probes the client before returning it
getClientReturnProbing(x) ==
  /\ x = Call("getClient", "afterInit")
  /\ Return(x, GetClientResult(client))
  /\ events' = IF client = NoClient THEN {} ELSE {"probe"}
  /\ handedOut' = IF ret'.result.kind = "client"
                    THEN handedOut \cup {ret'.result.client}
                    ELSE handedOut
  /\ UNCHANGED <<env, sessionVars, built, envChanges, tokenAlwaysSet,
                 initFailed, failedAlone, probeFailed>>

\* getClient() after `await this.initializeClient()`
getClientReturn(x) ==
  /\ x = Call("getClient", "afterInit")
  /\ Return(x, GetClientResult(client))
  /\ events' = {}
  /\ handedOut' = IF ret'.result.kind = "client"
                    THEN handedOut \cup {ret'.result.client}
                    ELSE handedOut
  /\ UNCHANGED <<env, sessionVars, built, envChanges, tokenAlwaysSet,
                 initFailed, failedAlone, probeFailed>>

\* Variants of getAuthStatusEnd: tenantId and clientId taken from each
\* other's variable,
getAuthStatusEndSwapped(probeOk, c, initialized, e) ==
  [result |-> IF probeOk THEN StatusTrue(e.AZURE_CLIENT_ID, e.AZURE_TENANT_ID)
              ELSE StatusFalse,
   client |-> c,
   isInitialized |-> initialized]

\* and the session discarded when the probe fails.
getAuthStatusEndTeardown(probeOk, c, initialized, e) ==
  [result |-> IF probeOk THEN StatusTrue(e.AZURE_TENANT_ID, e.AZURE_CLIENT_ID)
              ELSE StatusFalse,
   client |-> IF probeOk THEN c ELSE NoClient,
   isInitialized |-> (initialized /\ probeOk)]

\* getAuthStatus() once the probe has settled (lines 111-121): the status
\* returned, read from the environment e, and the session it leaves.
getAuthStatusEnd(probeOk, c, initialized, e) ==
  [result |-> IF probeOk THEN StatusTrue(e.AZURE_TENANT_ID, e.AZURE_CLIENT_ID)
              ELSE StatusFalse,
   client |-> c,
   isInitialized |-> initialized]

\* The end of getAuthStatus() for call x with the probe's verdict
ProbeSettled(x, probeOk) ==
  LET end == getAuthStatusEnd(probeOk, client, isInitialized, env) IN
  /\ Return(x, end.result)
  /\ client' = end.client
  /\ isInitialized' = end.isInitialized
  /\ probeFailed' = (probeFailed \/ ~probeOk)
  /\ UNCHANGED <<env, msalApp, built, envChanges, tokenAlwaysSet, initFailed,
                 failedAlone>>

\* getAuthStatus() after `await this.initializeClient()`: no client, or the
\* probe is sent with a token from the client's supplier.  A supplier that
\* throws fails the probe before any request leaves.
getAuthStatusProbe(x) ==
  /\ x = Call("getAuthStatus", "afterInit")
  /\ IF client = NoClient
       THEN /\ Return(x, StatusFalse)
            /\ events' = {}
            /\ UNCHANGED <<sessionVars, env, historyVars>>
       ELSE \E outcome \in SupplierAnswers(client, msalApp) :
              LET supplied == getAccessToken(client, msalApp, outcome) IN
              /\ UNCHANGED handedOut
              /\ IF supplied.threw
                   THEN /\ ProbeSettled(x, FALSE)
                        /\ events' = {"probe", "probeError"}
                                       \cup SupplierEvents(supplied)
                   ELSE /\ Goto(x, "probe")
                        /\ events' = {"probe"} \cup SupplierEvents(supplied)
                        /\ UNCHANGED <<env, sessionVars, built, envChanges,
                                       tokenAlwaysSet, initFailed, failedAlone,
                                       probeFailed>>

\* getAuthStatus() resumed by the answer to GET /organization
getAuthStatusReturn(x) ==
  /\ x.at = "probe"
  /\ \E probeOk \in BOOLEAN :
       /\ ProbeSettled(x, probeOk)
       /\ events' = IF probeOk THEN {"readAzureStatus"} ELSE {"probeError"}
  /\ UNCHANGED handedOut

\* A variant of IsAuthenticatedValue that does not look at the session
IsAuthenticatedValueBlind(c, initialized) == TRUE

\* The value isAuthenticated() returns (line 136)
IsAuthenticatedValue(c, initialized) == c # NoClient /\ initialized

\* isAuthenticated() is synchronous: it runs between two steps of the callers
isAuthenticated ==
  /\ ret' = Returned("isAuthenticated",
                     BoolResult(IsAuthenticatedValue(client, isInitialized)))
  /\ events' = {}
  /\ UNCHANGED <<env, sessionVars, calls, historyVars>>

----------------------------------------------------------------------------
(* The surroundings: holders of a client, and the environment *)

TokenResult(c, supplied) ==
  IF supplied.threw
    THEN [kind |-> "tokenError", client |-> c, message |-> supplied.message]
    ELSE [kind |-> "token", client |-> c, token |-> supplied.token]

\* A holder of a client that a call handed out (a tool handler making a
\* Graph request) has the client ask its supplier for a token.
useClient ==
  /\ \E c \in handedOut :
       \E outcome \in SupplierAnswers(c, msalApp) :
         LET supplied == getAccessToken(c, msalApp, outcome) IN
         /\ events' = SupplierEvents(supplied)
         /\ ret' = Returned("getAccessToken", TokenResult(c, supplied))
  /\ UNCHANGED <<env, sessionVars, calls, historyVars>>

\* Some code of the process assigns or deletes an environment variable.
SetEnv ==
  /\ envChanges < MaxEnvChanges
  /\ envChanges' = envChanges + 1
  /\ \/ \E v \in TokenValues \ {env.AUTH_TOKEN} :
          env' = [env EXCEPT !.AUTH_TOKEN = v]
     \/ \E v \in TenantValues \ {env.AZURE_TENANT_ID} :
          env' = [env EXCEPT !.AZURE_TENANT_ID = v]
     \/ \E v \in ClientIdValues \ {env.AZURE_CLIENT_ID} :
          env' = [env EXCEPT !.AZURE_CLIENT_ID = v]
     \/ \E v \in SecretValues \ {env.AZURE_CLIENT_SECRET} :
          env' = [env EXCEPT !.AZURE_CLIENT_SECRET = v]
  /\ tokenAlwaysSet' = (tokenAlwaysSet /\ TruthyToken(env'.AUTH_TOKEN))
  /\ ret' = NoReturn
  /\ events' = {}
  /\ UNCHANGED <<sessionVars, calls, built, handedOut, initFailed,
                 failedAlone, probeFailed>>

----------------------------------------------------------------------------
(* The specification *)

Next ==
  \/ getAuthStatus /\ UNCHANGED besideSession
  \/ getClient /\ UNCHANGED besideSession
  \/ \E x \in Pending : initializeClientResume(x) /\ UNCHANGED besideSession
  \/ \E x \in Pending : getAuthStatusProbe(x) /\ UNCHANGED besideSession
  \/ \E x \in Pending : getAuthStatusReturn(x) /\ UNCHANGED besideSession
  \/ \E x \in Pending : getClientReturn(x) /\ UNCHANGED besideSession
  \/ isAuthenticated /\ UNCHANGED besideSession
  \/ useClient /\ UNCHANGED besideSession
  \/ SetEnv /\ UNCHANGED besideSession

Spec == Init /\ [][Next]_vars

----------------------------------------------------------------------------
(* The issuer's request log: the session with every token request and     *)
(* every invocation of a client's token supplier recorded                 *)

\* The request acquireTokenByClientCredential is given (lines 65-67, 91-93)
TokenRequest == [scopes |-> <<CLIENT_CREDENTIAL_SCOPE>>]

\* The last step invoked the token supplier of a client: for a holder of the
\* client, or for the probe
SupplierInvoked == ret'.method = "getAccessToken" \/ "probe" \in events'

\* The record of a step of the session
Logged ==
  /\ issuerLog' = IF "issuerRequest" \in events'
                    THEN Append(issuerLog, TokenRequest)
                    ELSE issuerLog
  /\ Len(issuerLog') <= MaxIssuerRequests
  /\ supplierCalls' = IF SupplierInvoked THEN supplierCalls + 1
                       ELSE supplierCalls
  /\ supplierCalls' <= MaxSupplierCalls

RequestLogNext ==
  \/ getAuthStatus /\ Logged /\ UNCHANGED besideLog
  \/ getClient /\ Logged /\ UNCHANGED besideLog
  \/ \E x \in Pending :
       initializeClientResume(x) /\ Logged /\ UNCHANGED besideLog
  \/ \E x \in Pending :
       getAuthStatusProbe(x) /\ Logged /\ UNCHANGED besideLog
  \/ \E x \in Pending :
       getAuthStatusReturn(x) /\ Logged /\ UNCHANGED besideLog
  \/ \E x \in Pending :
       getClientReturn(x) /\ Logged /\ UNCHANGED besideLog
  \/ useClient /\ Logged /\ UNCHANGED besideLog

RequestLogSpec == Init /\ [][RequestLogNext]_vars

----------------------------------------------------------------------------
(* The session with a bounded number of calls, each of whose awaits is     *)
(* eventually answered                                                      *)

\* The calls started in one run
MaxCalls == 2

besideLive == <<logVars, validateVars, toolVars, startupVars, handlerVars>>

\* A step counts the call it starts, if it starts one
Counted ==
  /\ started' = IF BagCardinality(calls') > BagCardinality(calls)
                  THEN started + 1
                  ELSE started
  /\ started' <= MaxCalls
  /\ UNCHANGED besideLive

\* Where a call can stand
Awaits == {"issuer", "afterInit", "probe"}
AllCalls == {Call(method, at) : method \in {"getAuthStatus", "getClient"},
                                at \in Awaits}

\* A variant of Continue in which a call past initialization waits until no
\* other caller's attempt is pending
ContinueWhenQuiet(x) ==
  /\ x \in Pending
  /\ x.at = "afterInit" => Quiet
  /\ \/ initializeClientResume(x)
     \/ getAuthStatusProbe(x)
     \/ getAuthStatusReturn(x)
     \/ getClientReturn(x)

\* The step call x takes when the promise it awaits settles: the issuer's
\* answer (line 65), initializeClient's return (lines 105, 125), the probe's
\* answer (line 112)
Continue(x) ==
  /\ x \in Pending
  /\ \/ initializeClientResume(x)
     \/ getAuthStatusProbe(x)
     \/ getAuthStatusReturn(x)
     \/ getClientReturn(x)

LiveNext ==
  \/ getAuthStatus /\ Counted
  \/ getClient /\ Counted
  \/ \E x \in AllCalls : Continue(x) /\ Counted
  \/ isAuthenticated /\ Counted
  \/ useClient /\ Counted
  \/ SetEnv /\ Counted

\* Every await is eventually answered: the issuer and the probe return, and
\* the continuation of a settled promise is run by the event loop
Answered == \A x \in AllCalls : WF_vars(Continue(x) /\ Counted)

LiveSpec == Init /\ [][LiveNext]_vars /\ Answered

----------------------------------------------------------------------------
(* validateToken on its own: one call for every token of up to            *)
(* MaxSegments segments                                                    *)

\* The session of a process in which no call has been made, with no
\* configuration
\* A GraphService on which no call has been made
ServiceUntouched ==
  /\ client = NoClient
  /\ isInitialized = FALSE
  /\ msalApp = NoApp
  /\ calls = EmptyBag
  /\ ret = NoReturn
  /\ events = {}
  /\ built = << >>
  /\ handedOut = {}
  /\ envChanges = 0
  /\ tokenAlwaysSet = FALSE
  /\ initFailed = FALSE
  /\ failedAlone = FALSE
  /\ probeFailed = FALSE
  /\ issuerLog = << >>
  /\ supplierCalls = 0
  /\ started = 0

SessionIdle ==
  /\ env = NoConfiguration
  /\ ServiceUntouched

sessionState == <<env, sessionVars, calls, ret, events, historyVars, logVars>>
besideValidate == <<sessionState, toolVars, startupVars, liveVars,
                    handlerVars>>

\* What a token may have between two "."
Segments ==
  {"header", "", PayloadGraph, PayloadGraphArray, PayloadGraphLast,
   PayloadOther, PayloadOtherArray, PayloadEmptyArray, PayloadNoAud,
   PayloadNull, PayloadNumber, PayloadArray, PayloadNotJson, PayloadNotBase64}

\* token.split("."): a string has at least one segment
Tokens == UNION {[1..n -> Segments] : n \in 1..MaxSegments}

ValidateInit ==
  /\ SessionIdle
  /\ jwt \in Tokens
  /\ validated = NotValidated
  /\ ToolsIdle
  /\ StartupOver
  /\ HandlerIdle

\* A call validateToken(jwt) from its start to its return
callValidateToken ==
  /\ ~validated.done
  /\ validated' = [done |-> TRUE, value |-> validateToken(jwt)]
  /\ UNCHANGED <<jwt, besideValidate>>

ValidateNext == callValidateToken

ValidateSpec == ValidateInit /\ [][ValidateNext]_vars

----------------------------------------------------------------------------
(* The tool handlers of registerUsersTools and registerTeamsTools: one     *)
(* invocation of one handler, against the graphService it was given        *)

\* The cross mark (U+274C) every error text starts with
ErrorMarker == "[x]"

UsersTools == {"search_users", "get_user"}
TeamsTools ==
  {"list_teams", "list_channels", "get_channel_messages",
   "send_channel_message", "get_channel_message_replies",
   "reply_to_channel_message", "list_team_members",
   "search_users_for_mentions", "download_message_hosted_content",
   "delete_channel_message", "update_channel_message"}
Tools == UsersTools \cup TeamsTools

\* The handlers with "catch (error: any)", which read error.message as is
CatchAny == {"send_channel_message", "reply_to_channel_message"}

\* The handlers whose error response carries isError: true
FlagsError ==
  CatchAny \cup {"delete_channel_message", "update_channel_message"}

\* What a rejected promise may carry: an Error with its message, a string,
\* or undefined
ErrorValue(message) == [type |-> "Error", message |-> message]
StringValue == [type |-> "string", message |-> <<"String", "error">>]
UndefinedValue == [type |-> "undefined", message |-> << >>]
Thrown ==
  {ErrorValue(NotAuthenticatedMessage),
   ErrorValue(<<"Not", "authenticated">>), StringValue, UndefinedValue}

\* Reading .message of undefined
TypeError ==
  ErrorValue(<<"Cannot", "read", "properties", "of", "undefined">>)

UnknownErrorMessage == <<"Unknown", "error", "occurred">>

\* A value caught from the await it was thrown at
Caught(from, e) == [from |-> from, type |-> e.type, message |-> e.message]

Resolved(text, isError) ==
  [kind |-> "resolved", text |-> text, isError |-> isError]
Rejected(e) == [kind |-> "rejected", reason |-> e]

\* The words of the error text between the marker and the message
ErrorPrefix(t, replyId) ==
  CASE t = "send_channel_message" -> <<"Failed", "to", "send", "message:">>
    [] t = "reply_to_channel_message" -> <<"Failed", "to", "send", "reply:">>
    [] t = "delete_channel_message" ->
         <<"Failed", "to", "delete", IF replyId THEN "reply:" ELSE "message:">>
    [] t = "update_channel_message" ->
         <<"Failed", "to", "update", "channel", "message:">>
    [] OTHER -> <<"Error:">>

\* catch (error: unknown): error instanceof Error ? error.message : "Unknown
\* error occurred"
CatchUnknown(t, replyId, e) ==
  LET errorMessage ==
        IF e.type = "Error" THEN e.message ELSE UnknownErrorMessage
  IN  Resolved(<<ErrorMarker>> \o ErrorPrefix(t, replyId) \o errorMessage,
               t \in FlagsError)

\* catch (error: any): `${error.message}`, which is "undefined" for a string
\* and a TypeError for undefined
CatchAnyClause(t, replyId, e) ==
  IF e.type = "undefined"
  THEN Rejected(TypeError)
  ELSE LET message == IF e.type = "Error" THEN e.message ELSE <<"undefined">>
       IN  Resolved(<<ErrorMarker>> \o ErrorPrefix(t, replyId) \o message,
                    TRUE)

Catch(t, replyId, e) ==
  IF t \in CatchAny
  THEN CatchAnyClause(t, replyId, e)
  ELSE CatchUnknown(t, replyId, e)

\* The Graph requests one invocation makes at most
MaxGraphCalls == 2

sessionAndValidate == <<sessionState, validateVars, startupVars, liveVars,
                        handlerVars>>

ToolInit ==
  /\ SessionIdle
  /\ jwt = NoToken
  /\ validated = NotValidated
  /\ StartupOver
  /\ HandlerIdle
  /\ tool \in Tools
  /\ toolAt = "getClient"
  /\ thrown = NoFailure
  /\ graphCalls = 0
  /\ response = NoResponse

\* await graphService.getClient(), the first statement of every try block,
\* resolves
getClientResolves ==
  /\ toolAt = "getClient"
  /\ toolAt' = "body"
  /\ UNCHANGED <<tool, thrown, graphCalls, response, sessionAndValidate>>

\* The handler's catch clause takes what the try block threw
Throws(from, e) ==
  /\ thrown' = Caught(from, e)
  /\ \E replyId \in BOOLEAN : response' = Catch(tool, replyId, e)
  /\ toolAt' = "done"

\* ... or rejects
getClientRejects ==
  /\ toolAt = "getClient"
  /\ \E e \in Thrown : Throws("getClient", e)
  /\ UNCHANGED <<tool, graphCalls, sessionAndValidate>>

\* A request client.api(...) made by the body of the try block resolves
graphRequestResolves ==
  /\ toolAt = "body"
  /\ graphCalls < MaxGraphCalls
  /\ graphCalls' = graphCalls + 1
  /\ UNCHANGED <<tool, toolAt, thrown, response, sessionAndValidate>>

\* ... or rejects
graphRequestRejects ==
  /\ toolAt = "body"
  /\ graphCalls < MaxGraphCalls
  /\ graphCalls' = graphCalls + 1
  /\ \E e \in Thrown : Throws("graph", e)
  /\ UNCHANGED <<tool, sessionAndValidate>>

SuccessText == <<"result">>

\* The try block returns its response
handlerReturns ==
  /\ toolAt = "body"
  /\ response' = Resolved(SuccessText, FALSE)
  /\ toolAt' = "done"
  /\ UNCHANGED <<tool, thrown, graphCalls, sessionAndValidate>>

ToolNext ==
  \/ getClientResolves
  \/ getClientRejects
  \/ graphRequestResolves
  \/ graphRequestRejects
  \/ handlerReturns

ToolSpec == ToolInit /\ [][ToolNext]_vars

----------------------------------------------------------------------------
(* The start of the process: main() of index.ts *)

\* The variables validateEnv requires, in the order it lists them
required == <<"AZURE_TENANT_ID", "AZURE_CLIENT_ID", "AZURE_CLIENT_SECRET">>

\* validateEnv reports and exits whatever AUTH_TOKEN is
ValidateEnvOutcomeNoSkip(e) ==
  LET missing == SelectSeq(required, LAMBDA key : ~Truthy(e[key]))
  IN  [exit |-> Len(missing) > 0, missing |-> missing]

\* validateEnv(): whether it calls process.exit(1), and the variables it
\* reports missing
ValidateEnvOutcome(e) ==
  IF TruthyToken(e.AUTH_TOKEN)
  THEN [exit |-> FALSE, missing |-> << >>]
  ELSE LET missing == SelectSeq(required, LAMBDA key : ~Truthy(e[key]))
       IN  [exit |-> Len(missing) > 0, missing |-> missing]

Exit(code, by) == [code |-> code, by |-> by]

serviceAndTools == <<sessionVars, calls, ret, events, historyVars, logVars,
                     validateVars, toolVars, liveVars, handlerVars>>

StartupInit ==
  /\ env \in Envs
  /\ ServiceUntouched
  /\ jwt = NoToken
  /\ validated = NotValidated
  /\ ToolsIdle
  /\ HandlerIdle
  /\ mainAt = "validateEnv"
  /\ exited = NoExit
  /\ registered = << >>
  /\ reported = << >>

\* main(): validateEnv(), which returns or ends the process
validateEnv ==
  /\ mainAt = "validateEnv"
  /\ LET outcome == ValidateEnvOutcome(env) IN
       /\ reported' = outcome.missing
       /\ IF outcome.exit
            THEN /\ exited' = Exit(1, "validateEnv")
                 /\ mainAt' = "exited"
            ELSE /\ exited' = exited
                 /\ mainAt' = "startMcpServer"
  /\ UNCHANGED <<env, registered, serviceAndTools>>

\* startMcpServer() up to its await: the server is made and the three tool
\* groups are registered on it
startMcpServer ==
  /\ mainAt = "startMcpServer"
  /\ registered' = <<"auth", "users", "teams">>
  /\ mainAt' = "connect"
  /\ UNCHANGED <<env, exited, reported, serviceAndTools>>

\* await server.connect(transport) resolves
connectResolves ==
  /\ mainAt = "connect"
  /\ mainAt' = "serving"
  /\ UNCHANGED <<env, exited, registered, reported, serviceAndTools>>

\* ... or rejects, and main().catch ends the process
connectRejects ==
  /\ mainAt = "connect"
  /\ exited' = Exit(1, "main.catch")
  /\ mainAt' = "exited"
  /\ UNCHANGED <<env, registered, reported, serviceAndTools>>

StartupNext ==
  \/ validateEnv
  \/ startMcpServer
  \/ connectResolves
  \/ connectRejects

StartupSpec == StartupInit /\ [][StartupNext]_vars

----------------------------------------------------------------------------
(* The bodies of the handlers.  A string a handler takes apart is a        *)
(* sequence of characters.                                                  *)

\* What the specifications of the handlers leave alone
besideHandlers == <<sessionState, validateVars, startupVars, liveVars>>

\* The session, the token check and the start of the process at rest
RestIdle ==
  /\ SessionIdle
  /\ jwt = NoToken
  /\ validated = NotValidated
  /\ StartupOver

\* A request a handler makes through the client, and its recorded form
Request(method, path) == [method |-> method, path |-> path]

\* A response whose text is JSON.stringify(value, null, 2)
Json(value) == [kind |-> "resolved", json |-> value, isError |-> FALSE]

\* s.split(sep)
RECURSIVE Split(_, _)
Split(s, sep) ==
  IF \A i \in DOMAIN s : s[i] # sep
    THEN <<s>>
    ELSE LET i == CHOOSE i \in DOMAIN s :
                    s[i] = sep /\ \A j \in 1..(i - 1) : s[j] # sep
         IN  <<SubSeq(s, 1, i - 1)>> \o Split(SubSeq(s, i + 1, Len(s)), sep)

RECURSIVE TrimStart(_)
TrimStart(s) ==
  IF s # << >> /\ Head(s) = " " THEN TrimStart(Tail(s)) ELSE s

RECURSIVE TrimEnd(_)
TrimEnd(s) ==
  IF s # << >> /\ s[Len(s)] = " "
    THEN TrimEnd(SubSeq(s, 1, Len(s) - 1))
    ELSE s

\* s.trim()
Trim(s) == TrimEnd(TrimStart(s))

----------------------------------------------------------------------------
(* list_teams *)

\* The longest TEAM_IDS value
MaxEnvLen == 4

IdChars == {"a", "b", ",", " "}
TeamIdsValues == UNION {[1..n -> IdChars] : n \in 0..MaxEnvLen}

\* process.env.TEAM_IDS: unset, or a string
ListTeamsInputs ==
  {[set |-> FALSE, TEAM_IDS |-> << >>]}
    \cup {[set |-> TRUE, TEAM_IDS |-> v] : v \in TeamIdsValues}

\* if (teamIdsEnv)
TeamIdsGiven(in) == in.set /\ in.TEAM_IDS # << >>

\* A variant of TeamIds that keeps the ids as they stand between the commas
TeamIdsUntrimmed(teamIdsEnv) ==
  SelectSeq(Split(teamIdsEnv, ","), LAMBDA id : id # << >>)

\* teamIdsEnv.split(",").map((id) => id.trim()).filter(Boolean)
TeamIds(teamIdsEnv) ==
  LET parts == Split(teamIdsEnv, ",") IN
  SelectSeq([i \in DOMAIN parts |-> Trim(parts[i])], LAMBDA id : id # << >>)

\* The team Graph holds under an id, and the summary list_teams makes of it
Team(id) ==
  [id |-> id, displayName |-> <<"Team">> \o id, description |-> << >>,
   isArchived |-> FALSE, visibility |-> "private"]
TeamSummary(team) ==
  [id |-> team.id, displayName |-> team.displayName,
   description |-> team.description, isArchived |-> team.isArchived]

TeamRequest(teamId) == Request("GET", <<"teams", teamId>>)
GroupsRequest == Request("GET", <<"groups">>)

NoTeamsMatchingText ==
  <<"No", "teams", "found", "matching", "TEAM_IDS", "filter.">>
NoTeamsText == <<"No", "teams", "found.">>

\* What GET /teams/{id} may do: resolve with the team, reject, or resolve
\* with nothing (reading team.id then throws inside the inner try)
FetchOutcomes == {"team", "rejects", "null"}

\* A variant of FetchTeam in which a failed fetch ends the loop
FetchTeamAborting(l, outcome) ==
  [l EXCEPT !.teamList = IF outcome = "team"
                           THEN Append(@, TeamSummary(Team(l.teamIds[l.i])))
                           ELSE @,
            !.outcomes = Append(@, outcome),
            !.i = IF outcome = "team" THEN @ + 1 ELSE Len(l.teamIds) + 1]

\* One turn of the loop of lines 162-174, from the answer to its request
FetchTeam(l, outcome) ==
  [l EXCEPT !.teamList = IF outcome = "team"
                           THEN Append(@, TeamSummary(Team(l.teamIds[l.i])))
                           ELSE @,
            !.outcomes = Append(@, outcome),
            !.i = @ + 1]

\* The response of lines 176-184
ListTeamsFiltered(teamList) ==
  IF teamList = << >>
    THEN Resolved(NoTeamsMatchingText, FALSE)
    ELSE Json(teamList)

ListTeamsInit ==
  /\ RestIdle
  /\ tool = "list_teams"
  /\ toolAt = "getClient"
  /\ thrown = NoFailure
  /\ graphCalls = 0
  /\ response = NoResponse
  /\ input \in ListTeamsInputs
  /\ local = << >>
  /\ requests = << >>

\* The handler's outer catch takes e
listTeamsCatch(from, e) ==
  /\ thrown' = Caught(from, e)
  /\ response' = Catch("list_teams", FALSE, e)
  /\ toolAt' = "done"

\* await graphService.getClient() rejects
listTeamsGetClientRejects ==
  /\ toolAt = "getClient"
  /\ \E e \in Thrown : listTeamsCatch("getClient", e)
  /\ UNCHANGED <<tool, graphCalls, handlerVars, besideHandlers>>

\* ... or resolves: TEAM_IDS is read and the first request is made
listTeamsGetClientResolves ==
  /\ toolAt = "getClient"
  /\ IF TeamIdsGiven(input)
       THEN LET teamIds == TeamIds(input.TEAM_IDS) IN
            /\ local' = [teamIds |-> teamIds, i |-> 1, teamList |-> << >>,
                         outcomes |-> << >>]
            /\ IF teamIds = << >>
                 THEN /\ response' = ListTeamsFiltered(<< >>)
                      /\ toolAt' = "done"
                      /\ UNCHANGED requests
                 ELSE /\ requests' = <<TeamRequest(teamIds[1])>>
                      /\ toolAt' = "team"
                      /\ UNCHANGED response
       ELSE /\ requests' = <<GroupsRequest>>
            /\ toolAt' = "groups"
            /\ UNCHANGED <<local, response>>
  /\ UNCHANGED <<tool, thrown, graphCalls, input, besideHandlers>>

\* await client.api(`/teams/${teamId}`).get() settles
listTeamsFetchSettles ==
  /\ toolAt = "team"
  /\ \E outcome \in FetchOutcomes :
       LET l == FetchTeam(local, outcome) IN
       /\ local' = l
       /\ IF l.i <= Len(l.teamIds)
            THEN /\ requests' = Append(requests, TeamRequest(l.teamIds[l.i]))
                 /\ UNCHANGED <<toolAt, response>>
            ELSE /\ response' = ListTeamsFiltered(l.teamList)
                 /\ toolAt' = "done"
                 /\ UNCHANGED requests
  /\ UNCHANGED <<tool, thrown, graphCalls, input, besideHandlers>>

\* What GET /groups may resolve with
GroupsAnswers == {<< >>, <<Team(<<"a">>)>>, <<Team(<<"b">>), Team(<<"a">>)>>}

\* Without TEAM_IDS: await client.api("/groups")...get() resolves
listTeamsGroupsResolves ==
  /\ toolAt = "groups"
  /\ \E value \in GroupsAnswers :
       response' =
         IF value = << >>
           THEN Resolved(NoTeamsText, FALSE)
           ELSE Json([i \in DOMAIN value |->
                        [id |-> value[i].id,
                         displayName |-> value[i].displayName,
                         description |-> value[i].description]])
  /\ toolAt' = "done"
  /\ UNCHANGED <<tool, thrown, graphCalls, handlerVars, besideHandlers>>

\* ... or rejects
listTeamsGroupsRejects ==
  /\ toolAt = "groups"
  /\ \E e \in Thrown : listTeamsCatch("graph", e)
  /\ UNCHANGED <<tool, graphCalls, handlerVars, besideHandlers>>

ListTeamsNext ==
  \/ listTeamsGetClientRejects
  \/ listTeamsGetClientResolves
  \/ listTeamsFetchSettles
  \/ listTeamsGroupsResolves
  \/ listTeamsGroupsRejects

ListTeamsSpec == ListTeamsInit /\ [][ListTeamsNext]_vars

----------------------------------------------------------------------------
(* get_channel_messages and get_channel_message_replies *)

\* The most items of a Graph response
MaxMessages == 3

\* The createdDateTime values of the items: none, or a date string; the
\* third and fourth name the same instant
DateValues ==
  {Undefined, "2024-01-01T10:00:00Z", "2024-01-01T11:00:00Z",
   "2024-01-01T13:00:00+02:00", "2024-01-01T12:00:00Z"}

\* new Date(createdDateTime || 0).getTime(), in hours since the epoch,
\* for the dates above
GetTime(createdDateTime) ==
  CASE createdDateTime = "2024-01-01T10:00:00Z" -> 473362
    [] createdDateTime = "2024-01-01T11:00:00Z" -> 473363
    [] createdDateTime = "2024-01-01T13:00:00+02:00" -> 473363
    [] createdDateTime = "2024-01-01T12:00:00Z" -> 473364
    [] OTHER -> 0

\* The i-th item of a response, and the summary the handlers make of it
ChatMessage(i, createdDateTime) ==
  [id |-> i, body |-> [content |-> "Hello"], from |-> Undefined,
   createdDateTime |-> createdDateTime, importance |-> "normal",
   messageType |-> "message"]
MessageSummary(message) ==
  [id |-> message.id, content |-> message.body.content,
   from |-> message.from, createdDateTime |-> message.createdDateTime,
   importance |-> message.importance]

\* The answers to the request: no body, or a value of up to MaxMessages items
\* with or without a next link
ResponseValues ==
  UNION {{[i \in 1..n |-> ChatMessage(i, dates[i])] :
            dates \in [1..n -> DateValues]} : n \in 0..MaxMessages}
MessagesResponses ==
  {[isNull |-> TRUE, value |-> << >>, nextLink |-> FALSE]}
    \cup [isNull : {FALSE}, value : ResponseValues, nextLink : BOOLEAN]

\* A variant of CompareMessages that sorts the oldest first
CompareMessagesOldestFirst(a, b) ==
  GetTime(a.createdDateTime) - GetTime(b.createdDateTime)

\* The comparators of lines 336-340 and 631-635
CompareMessages(a, b) ==
  GetTime(b.createdDateTime) - GetTime(a.createdDateTime)
CompareReplies(a, b) ==
  GetTime(a.createdDateTime) - GetTime(b.createdDateTime)

Compare(t, a, b) ==
  IF t = "get_channel_messages" THEN CompareMessages(a, b)
  ELSE CompareReplies(a, b)

\* Array.prototype.sort with the comparator of tool t: a stable sort
RECURSIVE Insert(_, _, _)
Insert(x, sorted, t) ==
  IF sorted = << >> THEN <<x>>
  ELSE IF Compare(t, Head(sorted), x) <= 0
    THEN <<Head(sorted)>> \o Insert(x, Tail(sorted), t)
  ELSE <<x>> \o sorted

RECURSIVE Sort(_, _)
Sort(list, t) ==
  IF list = << >> THEN << >>
  ELSE Insert(list[Len(list)], Sort(SubSeq(list, 1, Len(list) - 1), t), t)

NoMessagesText == <<"No", "messages", "found", "in", "this", "channel.">>
NoRepliesText == <<"No", "replies", "found", "for", "this", "message.">>

\* The response of lines 316-357 and 611-653 to the answer r
MessagesResponse(t, in, r) ==
  IF r.isNull \/ r.value = << >>
    THEN Resolved(IF t = "get_channel_messages" THEN NoMessagesText
                  ELSE NoRepliesText, FALSE)
    ELSE LET list == Sort([i \in DOMAIN r.value |->
                             MessageSummary(r.value[i])], t)
         IN  IF t = "get_channel_messages"
               THEN Json([totalReturned |-> Len(list),
                          hasMore |-> r.nextLink,
                          messages |-> list])
               ELSE Json([parentMessageId |-> in.messageId,
                          totalReplies |-> Len(list),
                          hasMore |-> r.nextLink,
                          replies |-> list])

MessagesTools == {"get_channel_messages", "get_channel_message_replies"}
MessagesInputs ==
  [teamId : {"team"}, channelId : {"channel"}, messageId : {"message"},
   limit : {1, 20}]

\* GET .../messages?$top=limit, or .../messages/{id}/replies?$top=limit
MessagesRequest(t, in) ==
  Request("GET",
          <<"teams", in.teamId, "channels", in.channelId, "messages">>
            \o (IF t = "get_channel_messages" THEN << >>
                ELSE <<in.messageId, "replies">>)
            \o <<"$top", in.limit>>)

MessagesInit ==
  /\ RestIdle
  /\ tool \in MessagesTools
  /\ toolAt = "getClient"
  /\ thrown = NoFailure
  /\ graphCalls = 0
  /\ response = NoResponse
  /\ input \in MessagesInputs
  /\ local = << >>
  /\ requests = << >>

messagesCatch(from, e) ==
  /\ thrown' = Caught(from, e)
  /\ response' = Catch(tool, FALSE, e)
  /\ toolAt' = "done"

\* await graphService.getClient() rejects
messagesGetClientRejects ==
  /\ toolAt = "getClient"
  /\ \E e \in Thrown : messagesCatch("getClient", e)
  /\ UNCHANGED <<tool, graphCalls, handlerVars, besideHandlers>>

\* ... or resolves, and the request is made
messagesGetClientResolves ==
  /\ toolAt = "getClient"
  /\ requests' = <<MessagesRequest(tool, input)>>
  /\ toolAt' = "get"
  /\ UNCHANGED <<tool, thrown, graphCalls, response, input, local,
                 besideHandlers>>

\* The request resolves
messagesGetResolves ==
  /\ toolAt = "get"
  /\ \E r \in MessagesResponses :
       /\ local' = r
       /\ response' = MessagesResponse(tool, input, r)
  /\ toolAt' = "done"
  /\ UNCHANGED <<tool, thrown, graphCalls, input, requests, besideHandlers>>

\* ... or rejects
messagesGetRejects ==
  /\ toolAt = "get"
  /\ \E e \in Thrown : messagesCatch("graph", e)
  /\ UNCHANGED <<tool, graphCalls, handlerVars, besideHandlers>>

MessagesNext ==
  \/ messagesGetClientRejects
  \/ messagesGetClientResolves
  \/ messagesGetResolves
  \/ messagesGetRejects

MessagesSpec == MessagesInit /\ [][MessagesNext]_vars

----------------------------------------------------------------------------
(* send_channel_message, reply_to_channel_message, update_channel_message  *)

\* The mentions one invocation is given at most
MaxMentions == 2

\* The check mark (U+2705) every success text of these handlers starts with
OkMarker == "[ok]"

SendTools ==
  {"send_channel_message", "reply_to_channel_message",
   "update_channel_message"}

\* The handlers that take imageUrl, imageData, imageContentType
ImageTools == {"send_channel_message", "reply_to_channel_message"}

\* An optional string argument that was not given is "": undefined and ""
\* are both falsy where the handlers test these arguments
MentionUsers == {"u1", "u2"}
MentionsValues == UNION {[1..n -> MentionUsers] : n \in 0..MaxMentions}
Mention(userId) == [mention |-> <<"@", userId>>, userId |-> userId]

ImageContentTypes == {"", "image/png", "text/plain"}

SendInputs(t) ==
  [format : {"text", "markdown"},
   mentions : {[i \in DOMAIN m |-> Mention(m[i])] : m \in MentionsValues},
   importance : IF t \in ImageTools THEN {""} ELSE {"", "high"},
   replyId : IF t \in ImageTools THEN {""} ELSE {"", "reply"},
   imageUrl : IF t \in ImageTools THEN {"", "url"} ELSE {""},
   imageData : IF t \in ImageTools THEN {"", "data"} ELSE {""},
   imageContentType : IF t \in ImageTools THEN ImageContentTypes ELSE {""}]

\* isValidImageType of utils/attachments.js, on the types drawn
isValidImageType(contentType) == contentType \in {"image/jpeg", "image/png"}

\* The message as it goes through markdownToHtml and processMentionsInHtml
Content(rendered, tagged) ==
  [of |-> "message", rendered |-> rendered, tagged |-> tagged]

NoImageInfo == [data |-> "", contentType |-> ""]
ImageInfo(data, contentType) == [data |-> data, contentType |-> contentType]
Attachment == [id |-> "hosted", name |-> "image"]

\* A call of a helper, or a request, that settled, and how
Step(call, outcome) == [call |-> call, outcome |-> outcome]

\* The locals of the try block
SendLocals(in) ==
  [content |-> Content(FALSE, FALSE),
   contentType |-> "text",
   mentionMappings |-> << >>,
   finalMentions |-> << >>,
   imageInfo |-> NoImageInfo,
   attachments |-> << >>,
   steps |-> << >>]

\* An object with one field more
With(object, field, value) ==
  [k \in DOMAIN object \cup {field} |->
     IF k = field THEN value ELSE object[k]]

\* A request with a body
RequestWith(method, path, payload) ==
  [method |-> method, path |-> path, payload |-> payload]

UserRequest(userId) == Request("GET", <<"users", userId, "displayName">>)

\* Where the code stands after a stretch without await: the await it reached
\* or "done", its locals, the requests it made and the response it returned
Stage(at, l, reqs, resp) ==
  [at |-> at, local |-> l, requests |-> reqs, response |-> resp]
Returns(l, resp) == Stage("done", l, << >>, resp)

DownloadFailedText(in) ==
  <<ErrorMarker, "Failed", "to", "download", "image", "from", "URL:",
    in.imageUrl>>
UnsupportedTypeText(in) ==
  <<ErrorMarker, "Unsupported", "image", "type:", in.imageContentType>>
UploadFailedText ==
  <<ErrorMarker, "Failed", "to", "upload", "image", "attachment">>

\* The endpoint of the message
MessagePath(t, in) ==
  <<"teams", "team", "channels", "channel", "messages">>
    \o (CASE t = "send_channel_message" -> << >>
          [] t = "reply_to_channel_message" -> <<"message", "replies">>
          [] OTHER -> IF in.replyId # ""
                        THEN <<"message", "replies", in.replyId>>
                        ELSE <<"message">>)

\* messagePayload of lines 532-546, 830-844 and 1342-1354
MessagePayload(t, in, l) ==
  LET body == [content |-> l.content, contentType |-> l.contentType]
      base == IF t \in ImageTools
                THEN [body |-> body, importance |-> "normal"]
                ELSE IF in.importance # ""
                       THEN [body |-> body, importance |-> in.importance]
                       ELSE [body |-> body]
      mentioned == IF Len(l.finalMentions) > 0
                     THEN With(base, "mentions", l.finalMentions)
                     ELSE base
  IN  IF Len(l.attachments) > 0
        THEN With(mentioned, "attachments", l.attachments)
        ELSE mentioned

\* The payload is built and the message is posted, or patched
SendStage(t, in, l) ==
  Stage("send", l,
        <<RequestWith(IF t \in ImageTools THEN "POST" ELSE "PATCH",
                      MessagePath(t, in), MessagePayload(t, in, l))>>,
        NoResponse)

\* Lines 473-529 and 771-827 up to their first await: no image asked for,
\* the download of imageUrl, the test of imageContentType, or the upload of
\* imageData
Tested(l, outcome) ==
  [l EXCEPT !.steps = Append(@, Step("isValidImageType", outcome))]

ImageStage(t, in, l) ==
  IF t \in ImageTools /\ (in.imageUrl # "" \/ in.imageData # "")
  THEN IF in.imageUrl # ""
       THEN Stage("download", l, << >>, NoResponse)
       ELSE IF in.imageData # "" /\ in.imageContentType # ""
            THEN IF ~isValidImageType(in.imageContentType)
                 THEN Returns(Tested(l, "false"),
                              Resolved(UnsupportedTypeText(in), TRUE))
                 ELSE Stage("upload",
                            [Tested(l, "true") EXCEPT !.imageInfo =
                               ImageInfo(in.imageData, in.imageContentType)],
                            << >>, NoResponse)
            ELSE SendStage(t, in, l)
  ELSE SendStage(t, in, l)

\* processMentionsInHtml of utils/users.js: the content with its mentions
\* tagged, and one mention for every mapping
processMentionsInHtml(content, mentionMappings) ==
  [content |-> Content(content.rendered, TRUE),
   mentions |-> [i \in DOMAIN mentionMappings |->
                   [id |-> i - 1,
                    mentionText |-> mentionMappings[i].displayName,
                    mentioned |->
                      [user |-> [id |-> mentionMappings[i].userId]]]]]

\* Lines 463-470, 761-768 and 1334-1339, and on to the image
MentionsStage(t, in, l) ==
  IF Len(l.mentionMappings) > 0
  THEN LET result == processMentionsInHtml(l.content, l.mentionMappings)
       IN  ImageStage(t, in, [l EXCEPT !.content = result.content,
                                       !.finalMentions = result.mentions,
                                       !.contentType = "html"])
  ELSE ImageStage(t, in, l)

\* Lines 430-455: the next mention is looked up, or the loop is over
LookupStage(t, in, l) ==
  IF Len(l.mentionMappings) < Len(in.mentions)
  THEN Stage("lookup", l,
             <<UserRequest(in.mentions[Len(l.mentionMappings) + 1].userId)>>,
             NoResponse)
  ELSE MentionsStage(t, in, l)

\* Lines 420-426
FormatStage(t, in, l) ==
  IF in.format = "markdown"
  THEN Stage("markdownToHtml", l, << >>, NoResponse)
  ELSE LookupStage(t, in, [l EXCEPT !.contentType = "text"])

\* The success texts of lines 553-557, 851-855 and 1349-1353
MentionsLine(l) ==
  IF Len(l.finalMentions) > 0
  THEN <<"Mentions:">> \o [i \in DOMAIN l.finalMentions |->
                             l.finalMentions[i].mentionText]
  ELSE << >>
SentText(t, in, l) ==
  (CASE t = "send_channel_message" ->
          <<OkMarker, "Message", "sent", "successfully.", "Message", "ID:",
            "sent">>
     [] t = "reply_to_channel_message" ->
          <<OkMarker, "Reply", "sent", "successfully.", "Reply", "ID:",
            "sent">>
     [] OTHER ->
          IF in.replyId # ""
          THEN <<OkMarker, "Channel", "reply", "updated", "successfully.",
                 "Reply", "ID:", in.replyId>>
          ELSE <<OkMarker, "Channel", "message", "updated", "successfully.",
                 "Message", "ID:", "message">>)
    \o MentionsLine(l)
    \o (IF Len(l.attachments) > 0
          THEN <<"Image", "attached:", l.attachments[1].name>>
          ELSE << >>)

SendInit ==
  /\ RestIdle
  /\ tool \in SendTools
  /\ toolAt = "getClient"
  /\ thrown = NoFailure
  /\ graphCalls = 0
  /\ response = NoResponse
  /\ input \in SendInputs(tool)
  /\ local = SendLocals(input)
  /\ requests = << >>

\* The code runs on to its next await, or to its return
GoOn(stage) ==
  /\ toolAt' = stage.at
  /\ local' = stage.local
  /\ requests' = requests \o stage.requests
  /\ response' = stage.response
  /\ UNCHANGED <<tool, thrown, graphCalls, input, besideHandlers>>

\* The catch clause of the handler takes what an await threw
sendCatch(from, e) ==
  /\ thrown' = Caught(from, e)
  /\ response' = Catch(tool, input.replyId # "", e)
  /\ toolAt' = "done"
  /\ local' = [local EXCEPT !.steps = Append(@, Step(from, "rejects"))]
  /\ UNCHANGED <<tool, graphCalls, input, requests, besideHandlers>>

Settled(call, outcome) ==
  [local EXCEPT !.steps = Append(@, Step(call, outcome))]

\* await graphService.getClient() rejects
sendGetClientRejects ==
  /\ toolAt = "getClient"
  /\ \E e \in Thrown : sendCatch("getClient", e)

\* ... or resolves
sendGetClientResolves ==
  /\ toolAt = "getClient"
  /\ GoOn(FormatStage(tool, input, local))

\* await markdownToHtml(message) resolves
markdownToHtmlResolves ==
  /\ toolAt = "markdownToHtml"
  /\ GoOn(LookupStage(tool, input,
                      [Settled("markdownToHtml", "html")
                         EXCEPT !.content = Content(TRUE, FALSE),
                                !.contentType = "html"]))

\* ... or rejects
markdownToHtmlRejects ==
  /\ toolAt = "markdownToHtml"
  /\ \E e \in Thrown : sendCatch("markdownToHtml", e)

\* The mapping of the mention being looked up, with the display name found
\* or with the mention text
Mapping(mention, displayName) ==
  [mention |-> mention.mention, userId |-> mention.userId,
   displayName |-> IF displayName # << >> THEN displayName
                   ELSE mention.mention]

LookedUp(outcome, displayName) ==
  LET mention == input.mentions[Len(local.mentionMappings) + 1]
  IN  [Settled("lookup", outcome)
         EXCEPT !.mentionMappings = Append(@, Mapping(mention, displayName))]

\* The request for the display name resolves, with a name or without
lookupResolves ==
  /\ toolAt = "lookup"
  /\ \E displayName \in {<<"Display", "Name">>, << >>} :
       GoOn(LookupStage(tool, input, LookedUp("resolves", displayName)))

\* ... or rejects, the inner catch abandoning the handler
lookupRejectsAborting ==
  /\ toolAt = "lookup"
  /\ \E e \in Thrown : sendCatch("lookup", e)

\* ... or rejects: the inner catch of lines 442-453 takes the mention text
lookupRejects ==
  /\ toolAt = "lookup"
  /\ GoOn(LookupStage(tool, input, LookedUp("rejects", << >>)))

\* await imageUrlToBase64(imageUrl) resolves, with the image or with null
imageUrlToBase64Resolves ==
  /\ toolAt = "download"
  /\ \E imageInfo \in {ImageInfo("downloaded", "image/png"), NoImageInfo} :
       IF imageInfo = NoImageInfo
       THEN GoOn(Returns(Settled("imageUrlToBase64", "null"),
                         Resolved(DownloadFailedText(input), TRUE)))
       ELSE GoOn(Stage("upload",
                       [Settled("imageUrlToBase64", "image")
                          EXCEPT !.imageInfo = imageInfo],
                       << >>, NoResponse))

\* ... or rejects
imageUrlToBase64Rejects ==
  /\ toolAt = "download"
  /\ \E e \in Thrown : sendCatch("imageUrlToBase64", e)

\* await uploadImageAsHostedContent(...) resolves, with the attachment or
\* with null
uploadImageAsHostedContentResolves ==
  /\ toolAt = "upload"
  /\ \E uploaded \in BOOLEAN :
       IF uploaded
       THEN GoOn(SendStage(tool, input,
                           [Settled("uploadImageAsHostedContent",
                                    "attachment")
                              EXCEPT !.attachments = Append(@, Attachment)]))
       ELSE GoOn(Returns(Settled("uploadImageAsHostedContent", "null"),
                         Resolved(UploadFailedText, TRUE)))

\* ... or rejects
uploadImageAsHostedContentRejects ==
  /\ toolAt = "upload"
  /\ \E e \in Thrown : sendCatch("uploadImageAsHostedContent", e)

\* The POST, or the PATCH, of the message resolves
sendResolves ==
  /\ toolAt = "send"
  /\ GoOn(Returns(Settled("send", "resolves"),
                  Resolved(SentText(tool, input, local), FALSE)))

\* ... or rejects
sendRejects ==
  /\ toolAt = "send"
  /\ \E e \in Thrown : sendCatch("send", e)

SendNext ==
  \/ sendGetClientRejects
  \/ sendGetClientResolves
  \/ markdownToHtmlResolves
  \/ markdownToHtmlRejects
  \/ lookupResolves
  \/ lookupRejects
  \/ imageUrlToBase64Resolves
  \/ imageUrlToBase64Rejects
  \/ uploadImageAsHostedContentResolves
  \/ uploadImageAsHostedContentRejects
  \/ sendResolves
  \/ sendRejects

SendSpec == SendInit /\ [][SendNext]_vars

----------------------------------------------------------------------------
(* download_message_hosted_content *)

\* The pieces the body of a message is made of at most
MaxBodyLen == 3

\* What the regular expression of line 1042 sees in a body: text it passes
\* over, hostedContents/<id>/$value, and itemid="<id>"
Text == [kind |-> "text", id |-> ""]
HostedRef(id) == [kind |-> "hostedContents", id |-> id]
ItemId(id) == [kind |-> "itemid", id |-> id]
BodyPieces == {Text, HostedRef("a"), HostedRef("b"), ItemId("a")}
MessageBodies == UNION {[1..n -> BodyPieces] : n \in 0..MaxBodyLen}

\* The answers to the request for the message: null, or a message, whose
\* body?.content || "" is content
HostedMessages ==
  {[isNull |-> TRUE, content |-> << >>]}
    \cup {[isNull |-> FALSE, content |-> c] : c \in MessageBodies}

HostedInputs ==
  [messageId : {"message"}, hostedContentId : {"", "a", "c"},
   savePath : {"", "path"}]

\* Lines 1043-1052: the ids matched, each once, in the order they come
RECURSIVE Matches(_)
Matches(content) ==
  IF content = << >> THEN << >>
  ELSE LET before == Matches(SubSeq(content, 1, Len(content) - 1))
           contentId == content[Len(content)].id
       IN  IF /\ content[Len(content)].kind # "text"
              /\ contentId # ""
              /\ ~Includes(before, contentId)
           THEN Append(before, contentId)
           ELSE before

\* Line 1067, without the filter
ContentIdsUnfiltered(in, matches) == matches

\* Line 1067
ContentIds(in, matches) ==
  IF in.hostedContentId # "" THEN <<in.hostedContentId>> ELSE matches

MessageRequest(in) ==
  Request("GET", <<"teams", "team", "channels", "channel", "messages",
                   in.messageId>>)
HostedContentRequest(in, contentId) ==
  Request("GET", <<"teams", "team", "channels", "channel", "messages",
                   in.messageId, "hostedContents", contentId, "$value">>)

MessageNotFoundText == <<ErrorMarker, "Message", "not", "found.">>
NoHostedContentText ==
  <<ErrorMarker, "No", "hosted", "content", "found", "in", "this",
    "message.">>

\* What a download, or the write of its file, may reject with
DownloadErrors ==
  {ErrorValue(<<"Not", "found">>), ErrorValue(<< >>), UndefinedValue}

\* The bytes of a hosted content, and their base64 form
Buffer(contentId) == <<"bytes", contentId>>
Base64(buffer) == <<"base64">> \o buffer

\* Lines 1126-1136: the file of one content among several gets its index
TargetPath(in, contentIds, contentId) ==
  IF Len(contentIds) > 1
  THEN <<in.savePath,
         (CHOOSE i \in DOMAIN contentIds :
            /\ contentIds[i] = contentId
            /\ \A j \in 1..(i - 1) : contentIds[j] # contentId) - 1>>
  ELSE <<in.savePath>>

\* The entries of results: lines 1102-1106 with 1140 or 1143, and 1150-1155
SavedResult(contentId, targetPath) ==
  [id |-> contentId, contentType |-> "image/png",
   size |-> Len(Buffer(contentId)), savedTo |-> targetPath]
DataResult(contentId) ==
  [id |-> contentId, contentType |-> "image/png",
   size |-> Len(Buffer(contentId)),
   base64Data |-> Base64(Buffer(contentId))]
ErrorResult(contentId, downloadError) ==
  [id |-> contentId, contentType |-> "unknown", size |-> 0,
   error |-> IF downloadError.type = "Error" THEN downloadError.message
             ELSE <<"Unknown", "error">>]

\* r.error as a condition: the field is there and is not the empty string
HasError(r) == "error" \in DOMAIN r /\ r.error # << >>

\* Lines 1160-1186
HostedResponse(in, contentIds, results) ==
  LET successCount == Len(SelectSeq(results, LAMBDA r : ~HasError(r)))
      errorCount == Len(SelectSeq(results, LAMBDA r : HasError(r)))
  IN  Json([summary |->
              <<"Downloaded", successCount, "of", Len(contentIds),
                "hosted", "content(s)">>
                \o (IF errorCount > 0 THEN <<"(", errorCount, "failed)">>
                    ELSE << >>),
            messageId |-> in.messageId,
            totalContentItems |-> Len(contentIds),
            successCount |-> successCount,
            errorCount |-> errorCount,
            contents |-> results])

\* The locals of the try block; failed holds the places in contentIds whose
\* download or write was caught by the inner catch
HostedLocals ==
  [message |-> [isNull |-> TRUE, content |-> << >>],
   matches |-> << >>, contentIds |-> << >>, results |-> << >>,
   failed |-> {}]

\* The loop of line 1079 goes to its next content id, or is over
NextContent(in, l) ==
  IF Len(l.results) < Len(l.contentIds)
  THEN Stage("download", l,
             <<HostedContentRequest(in, l.contentIds[Len(l.results) + 1])>>,
             NoResponse)
  ELSE Returns(l, HostedResponse(in, l.contentIds, l.results))

\* Lines 1028-1067, and into the loop
MessageStage(in, l, message) ==
  LET matches == Matches(message.content)
      found == [l EXCEPT !.message = message, !.matches = matches]
  IN  IF message.isNull
      THEN Returns([l EXCEPT !.message = message],
                   Resolved(MessageNotFoundText, TRUE))
      ELSE IF Len(matches) = 0
           THEN Returns(found, Resolved(NoHostedContentText, TRUE))
           ELSE NextContent(in, [found EXCEPT !.contentIds =
                                                ContentIds(in, matches)])

HostedInit ==
  /\ RestIdle
  /\ tool = "download_message_hosted_content"
  /\ toolAt = "getClient"
  /\ thrown = NoFailure
  /\ graphCalls = 0
  /\ response = NoResponse
  /\ input \in HostedInputs
  /\ local = HostedLocals
  /\ requests = << >>

hostedCatch(from, e) ==
  /\ thrown' = Caught(from, e)
  /\ response' = Catch(tool, FALSE, e)
  /\ toolAt' = "done"
  /\ UNCHANGED <<tool, graphCalls, handlerVars, besideHandlers>>

\* await graphService.getClient() rejects
hostedGetClientRejects ==
  /\ toolAt = "getClient"
  /\ \E e \in Thrown : hostedCatch("getClient", e)

\* ... or resolves, and the message is asked for
hostedGetClientResolves ==
  /\ toolAt = "getClient"
  /\ GoOn(Stage("message", local, <<MessageRequest(input)>>, NoResponse))

\* The request for the message resolves
hostedMessageResolves ==
  /\ toolAt = "message"
  /\ \E message \in HostedMessages :
       GoOn(MessageStage(input, local, message))

\* ... or rejects
hostedMessageRejects ==
  /\ toolAt = "message"
  /\ \E e \in Thrown : hostedCatch("message", e)

\* The content id the loop is at
ContentId == local.contentIds[Len(local.results) + 1]

\* The inner catch of lines 1147-1156 takes what the download, or the
\* write, threw
DownloadCaught(e) ==
  NextContent(input,
              [local EXCEPT !.results = Append(@, ErrorResult(ContentId, e)),
                            !.failed = @ \cup {Len(local.results) + 1}])

\* The download of a hosted content resolves: its data is the result, or
\* its file is to be written
hostedContentResolves ==
  /\ toolAt = "download"
  /\ IF input.savePath # ""
     THEN GoOn(Stage("writeFile", local, << >>, NoResponse))
     ELSE GoOn(NextContent(input,
                           [local EXCEPT !.results =
                              Append(@, DataResult(ContentId))]))

\* ... or rejects
hostedContentRejects ==
  /\ toolAt = "download"
  /\ \E e \in DownloadErrors : GoOn(DownloadCaught(e))

\* await fs.writeFile(targetPath, buffer) resolves
writeFileResolves ==
  /\ toolAt = "writeFile"
  /\ GoOn(NextContent(input,
                      [local EXCEPT !.results =
                         Append(@, SavedResult(ContentId,
                                               TargetPath(input,
                                                          local.contentIds,
                                                          ContentId)))]))

\* ... or rejects
writeFileRejects ==
  /\ toolAt = "writeFile"
  /\ \E e \in DownloadErrors : GoOn(DownloadCaught(e))

HostedNext ==
  \/ hostedGetClientRejects
  \/ hostedGetClientResolves
  \/ hostedMessageResolves
  \/ hostedMessageRejects
  \/ hostedContentResolves
  \/ hostedContentRejects
  \/ writeFileResolves
  \/ writeFileRejects

HostedSpec == HostedInit /\ [][HostedNext]_vars

----------------------------------------------------------------------------
(* Properties of the session *)

\* A step in which a getAuthStatus()/getClient() call starts
CallStarts == BagCardinality(calls') = BagCardinality(calls) + 1

\* A step in which call x leaves the await it stands at
Leaves(x) == CopiesIn(x, calls') < CopiesIn(x, calls)

\* A step in which an initialization attempt ends without building a client
AttemptFails ==
  \/ "issuerError" \in events'
  \/ "issuerNoResult" \in events'
  \/ /\ "attempt" \in events'
     /\ "newClient" \notin events'
     /\ "issuerRequest" \notin events'

\* What the credential grant does to, or gets from, the outside
InitGrantEvents == {"readAzureInit", "newMsalApp", "issuerRequest"}
GrantEvents == InitGrantEvents \cup {"readAzureStatus"}

AllOneMode == \A i, j \in DOMAIN built : built[i] = built[j]

\* C1 as stated: while AUTH_TOKEN is set, no step reads an AZURE_* variable,
\* constructs the confidential-client application or requests a token from
\* the issuer.
C1_GrantNeverTouched ==
  tokenAlwaysSet => events \cap GrantEvents = {} /\ msalApp = NoApp

\* C1, amended: while AUTH_TOKEN is set (non-empty, valid or not),
\* initialization never reads the AZURE_* variables, no confidential-client
\* application is constructed, no client with the issuer-backed supplier
\* exists and no token is requested from the issuer, neither by
\* initialization nor by a client's supplier; getAuthStatus() still reads
\* AZURE_TENANT_ID and AZURE_CLIENT_ID to report them when its probe
\* succeeds.
C1_GrantUntouchedByInit ==
  tokenAlwaysSet =>
    /\ events \cap InitGrantEvents = {}
    /\ msalApp = NoApp
    /\ client.supplier # "dynamic"
    /\ (ret.method = "getAccessToken" => ret.result.kind = "token")
    /\ (ret.method = "getAuthStatus" /\ ret.result.isAuthenticated =>
          /\ "readAzureStatus" \in events
          /\ ret.result.tenantId = env.AZURE_TENANT_ID
          /\ ret.result.clientId = env.AZURE_CLIENT_ID)

\* AUTH_TOKEN set and valid beside a full credential-grant configuration,
\* and a getAuthStatus() call has just reported the AZURE_* values
C1_StatusReadsAzure ==
  /\ tokenAlwaysSet
  /\ AzureConfigured(env)
  /\ client.supplier = "static"
  /\ "readAzureStatus" \in events
  /\ ret = Returned("getAuthStatus", StatusTrue("t1", "c1"))

\* C2 as stated: all the clients ever installed are of one mode.
C2_OneModeEver == AllOneMode

\* C2, amended: every initialization attempt chooses the mode from the
\* environment as it reads it then: a starting call installs a client only
\* when it is not yet initialized and AUTH_TOKEN is valid at that moment (a
\* fixed-token client), an attempt resumed by the issuer installs an
\* issuer-backed client.  A call that starts when the session is Ready
\* attempts nothing and installs nothing, whatever the environment has
\* become, and while the environment is unchanged all clients installed are
\* of one mode.
C2_ModePerAttempt ==
  /\ [](envChanges = 0 => AllOneMode)
  /\ [][CallStarts =>
          /\ (isInitialized =>
                /\ UNCHANGED <<sessionVars, built>>
                /\ "attempt" \notin events')
          /\ (client' # client =>
                /\ client'.supplier = "static"
                /\ validateToken(env.AUTH_TOKEN) # NoToken
                /\ client'.token = env.AUTH_TOKEN)]_vars
  /\ [][(~CallStarts /\ client' # client) =>
          /\ client'.supplier = "dynamic"
          /\ msalApp.constructed
          /\ \E x \in Attempting : Leaves(x)]_vars

\* The session is Ready in credential-grant mode, the environment has since
\* been given a valid AUTH_TOKEN, and a getClient() call has just returned
\* the credential-grant client
C2_StaleModeKept ==
  /\ isInitialized
  /\ Quiet
  /\ envChanges = 1
  /\ client.supplier = "dynamic"
  /\ validateToken(env.AUTH_TOKEN) # NoToken
  /\ built = <<"dynamic">>
  /\ ret = Returned("getClient", ClientResult(client))

\* C3 as stated: the getClient() calls of a run return at most one client
\* object (a client is returned only once the session is Ready).
C3_OneInstanceEver == Cardinality(handedOut) <= 1

\* C3, amended: once the session is Ready and no initialization attempt that
\* started earlier is still suspended at the issuer, the stored client is
\* never replaced, no attempt starts again, every getClient() call returns
\* that stored client and every getAuthStatus() call resolves to a status;
\* an attempt still suspended when the session became Ready replaces the
\* client when it succeeds (the last one wins).
C3_OneInstanceOnceQuiet ==
  [][(isInitialized /\ Quiet) =>
       /\ UNCHANGED <<client, isInitialized, built>>
       /\ Quiet'
       /\ "attempt" \notin events'
       /\ (ret'.method = "getClient" =>
             /\ ret'.result = ClientResult(client)
             /\ handedOut' = handedOut \cup {client})
       /\ (ret'.method = "getAuthStatus" => ret'.result.kind = "status")]_vars

\* Two attempts ran concurrently and each built a client; both are over, and
\* getClient() calls have returned the first client and now the second,
\* which is the stored one
C3_SecondClientReturned ==
  /\ isInitialized
  /\ Quiet
  /\ Len(built) = 2
  /\ envChanges = 0
  /\ Cardinality(handedOut) = 2
  /\ client.id = 2
  /\ ret = Returned("getClient", ClientResult(client))

\* The environment holds a full credential-grant configuration and no
\* AUTH_TOKEN, it has not changed, and no token request or probe has failed
GrantRunClean ==
  /\ envChanges = 0
  /\ ~TruthyToken(env.AUTH_TOKEN)
  /\ AzureConfigured(env)
  /\ ~initFailed
  /\ ~probeFailed

\* C4: with a valid credential-grant configuration and while the issuer and
\* the probe succeed, every getAuthStatus() call, however calls interleave,
\* resolves to isAuthenticated:true with the tenantId and clientId of the
\* environment, and no call that is past initialization finds the session
\* without a client or with isInitialized false.
C4_ConcurrentStatusAuthenticated ==
  GrantRunClean =>
    /\ (ret.method = "getAuthStatus" =>
          ret.result = StatusTrue(env.AZURE_TENANT_ID, env.AZURE_CLIENT_ID))
    /\ (isInitialized <=> client # NoClient)
    /\ \A x \in Pending :
         x.at # "issuer" => isInitialized /\ client # NoClient

\* Two getAuthStatus() calls initialized concurrently, each built a client;
\* one has resolved to the authenticated status while the other awaits its
\* probe
C4_BothInitializedOneResolved ==
  /\ GrantRunClean
  /\ Len(built) = 2
  /\ calls = SetToBag({Call("getAuthStatus", "probe")})
  /\ ret = Returned("getAuthStatus", StatusTrue("t1", "c1"))

\* C5 as stated: once an initialization attempt has failed, leaving the
\* session without a client while no other attempt was pending, the session
\* is never initialized.
C5_FailurePermanent == failedAlone => ~isInitialized

\* C5, amended: an initialization failure is not permanent.  A failed
\* attempt (missing configuration, invalid token, issuer error or empty
\* issuer result) leaves client and isInitialized as they were, and any
\* later attempt that obtains a client, started by any later call, makes the
\* session Ready: isInitialized changes only from false to true, in a step
\* that builds a client.
C5_FailureLeavesSessionAsItWas ==
  /\ [][AttemptFails => UNCHANGED <<client, isInitialized>>]_vars
  /\ [][isInitialized' # isInitialized =>
          /\ isInitialized'
          /\ "newClient" \in events'
          /\ client' # NoClient
          /\ client' # client]_vars

\* An attempt failed with no other attempt pending, the environment has not
\* changed since, and a later getClient() call has initialized the session
\* and returned its client
C5_ReadyAfterFailure ==
  /\ failedAlone
  /\ envChanges = 0
  /\ isInitialized
  /\ built = <<"dynamic">>
  /\ ret = Returned("getClient", ClientResult(client))

\* C6: isInitialized is set only by an attempt that built a client.  A call
\* that starts while isInitialized is false runs an initialization attempt
\* from the environment of that moment (AUTH_TOKEN validated if set, else
\* the AZURE_* variables read and, when all three are present, the
\* application constructed anew and the issuer asked); a call that starts
\* while isInitialized is true attempts nothing and leaves the session alone.
C6_RetryUntilInitialized ==
  /\ [](isInitialized => client # NoClient)
  /\ [][CallStarts =>
          IF isInitialized
            THEN events' = {} /\ UNCHANGED sessionVars
            ELSE /\ "attempt" \in events'
                 /\ IF TruthyToken(env.AUTH_TOKEN)
                      THEN /\ "validateToken" \in events'
                           /\ events' \cap InitGrantEvents = {}
                      ELSE /\ "readAzureInit" \in events'
                           /\ IF AzureConfigured(env)
                                THEN /\ {"newMsalApp", "issuerRequest"}
                                          \subseteq events'
                                     /\ msalApp' =
                                          ConfidentialClientApplication(env)
                                ELSE /\ "issuerRequest" \notin events'
                                     /\ UNCHANGED sessionVars]_vars

\* After a failed attempt that left the session uninitialized, a later
\* call's attempt has just been answered by the issuer and built the client
C6_RetrySucceeded ==
  /\ failedAlone
  /\ isInitialized
  /\ "newClient" \in events
  /\ built = <<"dynamic">>
  /\ Quiet

\* C7: a failed probe makes getAuthStatus() resolve to exactly
\* {isAuthenticated:false} and changes neither client, isInitialized nor
\* msalApp.  From then on the session is initialized with a client: a call
\* that starts attempts no initialization, a getClient() call returns the
\* stored client, and a getAuthStatus() call past initialization sends the
\* probe again.
C7_ProbeFailureKeepsSession ==
  /\ [][ "probeError" \in events' =>
           /\ ret' = Returned("getAuthStatus", StatusFalse)
           /\ UNCHANGED sessionVars
           /\ client # NoClient]_vars
  /\ [](probeFailed => isInitialized /\ client # NoClient)
  /\ [][probeFailed =>
          /\ (CallStarts => "attempt" \notin events' /\ UNCHANGED sessionVars)
          /\ (ret'.method = "getClient" =>
                ret'.result = ClientResult(client) /\ client' = client)
          /\ (Leaves(Call("getAuthStatus", "afterInit")) =>
                "probe" \in events')]_vars

\* A probe has failed and a getClient() call has just returned the stored
\* client, the only one ever built
C7_ClientAfterProbeFailure ==
  /\ probeFailed
  /\ isInitialized
  /\ Len(built) = 1
  /\ ret = Returned("getClient", ClientResult(client))

\* C8: a token request that rejects during initialization is caught: the
\* step changes neither client nor isInitialized and nothing is thrown to
\* the caller.  getAuthStatus() always resolves to a status, to
\* {isAuthenticated:false} while there is no client; without a client
\* isInitialized is false and isAuthenticated() answers false; and
\* getClient() either returns a client or fails with the not-authenticated
\* error.
C8_InitErrorsCaught ==
  /\ [][ "issuerError" \in events' =>
           /\ UNCHANGED <<client, isInitialized>>
           /\ ret' = NoReturn]_vars
  /\ [][(client = NoClient /\ ret'.method = "getAuthStatus") =>
          ret'.result = StatusFalse]_vars
  /\ [](ret.method = "getAuthStatus" => ret.result.kind = "status")
  /\ [](ret.method = "getClient" =>
          \/ ret.result.kind = "client"
          \/ ret.result = Rejection(NotAuthenticatedMessage))
  /\ [](client = NoClient =>
          /\ ~isInitialized
          /\ (ret.method = "isAuthenticated" =>
                ret.result = BoolResult(FALSE)))

\* The issuer has just rejected the token request of an attempt and the
\* session is without a client
C8_IssuerRejected ==
  /\ "issuerError" \in events
  /\ client = NoClient
  /\ ~isInitialized
  /\ ret = NoReturn

\* C9: while AUTH_TOKEN is set to a token that fails validation, the session
\* stays uninitialized without a client, no confidential-client application
\* is constructed, the AZURE_* variables are not read by initialization and
\* the issuer is not asked, getAuthStatus() resolves to
\* {isAuthenticated:false} and getClient() fails with the not-authenticated
\* error, whatever the AZURE_* variables hold.
C9_InvalidTokenNoFallThrough ==
  (envChanges = 0 /\ TruthyToken(env.AUTH_TOKEN)
     /\ validateToken(env.AUTH_TOKEN) = NoToken) =>
    /\ ~isInitialized
    /\ client = NoClient
    /\ msalApp = NoApp
    /\ events \cap (GrantEvents \cup {"newClient", "probe"}) = {}
    /\ (ret.method = "getAuthStatus" => ret.result = StatusFalse)
    /\ (ret.method = "getClient" =>
          ret.result = Rejection(NotAuthenticatedMessage))

\* AUTH_TOKEN names another audience, the three AZURE_* variables are
\* present, and a getClient() call has just failed
C9_RejectedBesideFullGrantConfig ==
  /\ envChanges = 0
  /\ env.AUTH_TOKEN = WrongAudienceToken
  /\ AzureConfigured(env)
  /\ ret = Returned("getClient", Rejection(NotAuthenticatedMessage))

\* The message names the three credential-grant variables
NamesAll(message) ==
  /\ Includes(message, "AZURE_TENANT_ID")
  /\ Includes(message, "AZURE_CLIENT_ID")
  /\ Includes(message, "AZURE_CLIENT_SECRET")

\* C10: a getClient() call fails exactly when there is no client once its
\* initialization attempt is over, with an error whose message names
\* AZURE_TENANT_ID, AZURE_CLIENT_ID and AZURE_CLIENT_SECRET, and returns the
\* stored client otherwise; with none of the four variables present every
\* getClient() call fails so.
C10_GetClientFailsIffNoClient ==
  /\ (ret.method = "getClient" =>
        IF client = NoClient
          THEN /\ ret.result.kind = "error"
               /\ NamesAll(ret.result.message)
          ELSE ret.result = ClientResult(client))
  /\ (envChanges = 0 /\ env = NoConfiguration /\ ret.method = "getClient" =>
        /\ ret.result.kind = "error"
        /\ NamesAll(ret.result.message))

\* None of the four variables is present and a getClient() call has just
\* failed
C10_RejectedWithoutConfiguration ==
  /\ envChanges = 0
  /\ env = NoConfiguration
  /\ client = NoClient
  /\ ret.method = "getClient"
  /\ ret.result.kind = "error"
  /\ NamesAll(ret.result.message)

\* One of the three credential-grant variables is missing
GrantVariableMissing(e) ==
  \/ ~Truthy(e.AZURE_TENANT_ID)
  \/ ~Truthy(e.AZURE_CLIENT_ID)
  \/ ~Truthy(e.AZURE_CLIENT_SECRET)

\* C11: while AUTH_TOKEN is unset and one of AZURE_TENANT_ID,
\* AZURE_CLIENT_ID, AZURE_CLIENT_SECRET is missing, the session stays
\* uninitialized without a client, no confidential-client application is
\* constructed, the issuer is not asked, no probe is sent, and every
\* getAuthStatus() call resolves to exactly {isAuthenticated:false}.
C11_MissingGrantVariable ==
  (envChanges = 0 /\ ~TruthyToken(env.AUTH_TOKEN)
     /\ GrantVariableMissing(env)) =>
    /\ ~isInitialized
    /\ client = NoClient
    /\ msalApp = NoApp
    /\ events \cap {"newMsalApp", "issuerRequest", "newClient", "probe",
                    "probeError", "readAzureStatus"} = {}
    /\ (ret.method = "getAuthStatus" => ret.result = StatusFalse)

\* AUTH_TOKEN is unset, only AZURE_CLIENT_SECRET is missing, and a
\* getAuthStatus() call has just resolved to {isAuthenticated:false}
C11_StatusFalseWithoutSecret ==
  /\ envChanges = 0
  /\ env = [AUTH_TOKEN |-> NoToken, AZURE_TENANT_ID |-> "t1",
            AZURE_CLIENT_ID |-> "c1", AZURE_CLIENT_SECRET |-> Undefined]
  /\ initFailed
  /\ ret = Returned("getAuthStatus", StatusFalse)

\* C12: when the issuer gives no result to the token request of an
\* initialization attempt, that attempt builds no client and leaves client,
\* isInitialized and msalApp as they were, and its call goes on past
\* initialization; as long as no attempt has built a client there is no
\* client, isInitialized is false, isAuthenticated() answers false and
\* getAuthStatus() resolves to {isAuthenticated:false}.
C12_NoIssuerResultNoClient ==
  /\ [][ "issuerNoResult" \in events' =>
           /\ UNCHANGED sessionVars
           /\ built' = built
           /\ "newClient" \notin events'
           /\ ret' = NoReturn
           /\ \E x \in Attempting :
                Leaves(x) /\ Call(x.method, "afterInit") \in BagToSet(calls')
       ]_vars
  /\ [](built = << >> =>
          /\ client = NoClient
          /\ ~isInitialized
          /\ (ret.method = "isAuthenticated" => ret.result = BoolResult(FALSE))
          /\ (ret.method = "getAuthStatus" => ret.result = StatusFalse))

\* The issuer has just given no result to the only attempt, made by a
\* getAuthStatus() call, which is now past initialization without a client
C12_NoResultReceived ==
  /\ "issuerNoResult" \in events
  /\ client = NoClient
  /\ ~isInitialized
  /\ msalApp.constructed
  /\ calls = SetToBag({Call("getAuthStatus", "afterInit")})

\* C13: a getAuthStatus() call whose probe succeeded resolves to
\* isAuthenticated:true with the tenantId and clientId that
\* AZURE_TENANT_ID and AZURE_CLIENT_ID have in the environment when the
\* call returns, whatever they were when the session was initialized; and
\* getAuthStatus() reports isAuthenticated:true only so.
C13_StatusFromLiveEnvironment ==
  /\ [][ "readAzureStatus" \in events' =>
           /\ ret' = Returned("getAuthStatus",
                             StatusTrue(env.AZURE_TENANT_ID,
                                        env.AZURE_CLIENT_ID))
           /\ client # NoClient
           /\ env' = env]_vars
  /\ [](ret.method = "getAuthStatus" /\ ret.result.isAuthenticated =>
          /\ "readAzureStatus" \in events
          /\ ret.result.tenantId = env.AZURE_TENANT_ID
          /\ ret.result.clientId = env.AZURE_CLIENT_ID)

\* The session was initialized with the credential grant for tenant t1,
\* AZURE_TENANT_ID has been deleted since, and a getAuthStatus() call has
\* just reported no tenantId
C13_DeletedTenantReported ==
  /\ msalApp.tenantId = "t1"
  /\ client.supplier = "dynamic"
  /\ env.AZURE_TENANT_ID = Undefined
  /\ ret = Returned("getAuthStatus", StatusTrue(Undefined, "c1"))

\* C14: isAuthenticated() answers true exactly when a client exists and
\* isInitialized is true, so false as long as no call has built a client;
\* it changes neither client, isInitialized, msalApp nor the environment,
\* starts or resumes no call, and does nothing to the outside (no
\* initialization attempt, no issuer request, no probe).
C14_IsAuthenticatedPureRead ==
  [][ret'.method = "isAuthenticated" =>
        /\ ret'.result = BoolResult(client # NoClient /\ isInitialized)
        /\ (built = << >> => ret'.result = BoolResult(FALSE))
        /\ UNCHANGED <<env, sessionVars, calls, built>>
        /\ events' = {}]_vars

\* isAuthenticated() has just answered false in a process that has a full
\* credential-grant configuration and in which no call has been made yet
C14_FalseBeforeAnyCall ==
  /\ envChanges = 0
  /\ AzureConfigured(env)
  /\ ~TruthyToken(env.AUTH_TOKEN)
  /\ calls = EmptyBag
  /\ ~initFailed
  /\ built = << >>
  /\ ret = Returned("isAuthenticated", BoolResult(FALSE))

\* A step of a getClient() call: it starts, resumes or returns
GetClientStep ==
  \E at \in {"issuer", "afterInit"} :
    CopiesIn(Call("getClient", at), calls')
      # CopiesIn(Call("getClient", at), calls)

\* C15: no step of a getClient() call sends the probe, and while the
\* session is initialized no step of a getClient() call asks the issuer or
\* does anything else to the outside; a credential that has stopped working
\* shows only when a holder of the returned client has it ask for a token.
C15_GetClientNoNetwork ==
  [][GetClientStep =>
       /\ events' \cap {"probe", "probeError", "readAzureStatus"} = {}
       /\ (isInitialized => events' \cap {"issuerRequest", "probe"} = {})
       /\ (isInitialized /\ Quiet => events' = {})
       /\ (ret'.method = "getClient" => events' = {})]_vars

\* No token request of an initialization and no probe has failed, calls
\* have returned the client, and the client's supplier has just failed to
\* get a token for a holder
C15_FailureOnlyAtUse ==
  /\ ~initFailed
  /\ ~probeFailed
  /\ isInitialized
  /\ client \in handedOut
  /\ ret.method = "getAccessToken"
  /\ ret.result.kind = "tokenError"
  /\ ret.result.client = client

\* C16: every token request the issuer receives names the one scope
\* https://graph.microsoft.com/.default.  With an issuer-backed client built
\* by the only initialization attempt that asked the issuer, the issuer has
\* received one request for the initialization and one for every invocation
\* of the supplier, n + 1 after n invocations.  With a fixed-token client the
\* issuer has received no request and every invocation of the supplier
\* gives the validated AUTH_TOKEN.
C16_SupplierAsksEveryTime ==
  /\ \A i \in DOMAIN issuerLog :
       issuerLog[i].scopes =
         << <<"https://graph", "microsoft", "com/", "default">> >>
  /\ (client.supplier = "dynamic" /\ Len(built) = 1 /\ ~initFailed /\ Quiet =>
        Len(issuerLog) = supplierCalls + 1)
  /\ (client.supplier = "static" =>
        /\ issuerLog = << >>
        /\ client.token = env.AUTH_TOKEN
        /\ validateToken(env.AUTH_TOKEN) = env.AUTH_TOKEN
        /\ (ret.method = "getAccessToken" =>
              ret.result = [kind |-> "token", client |-> client,
                            token |-> env.AUTH_TOKEN]))

\* One initialization by the credential grant, then two invocations of the
\* client's supplier, the last one for a holder of the client: the issuer
\* has received three requests
C16_ThreeRequestsForTwoInvocations ==
  /\ client.supplier = "dynamic"
  /\ Len(built) = 1
  /\ ~initFailed
  /\ Quiet
  /\ supplierCalls = 2
  /\ Len(issuerLog) = 3
  /\ ret.method = "getAccessToken"
  /\ ret.result.kind = "token"

\* C17: a call that starts while isInitialized is true runs initializeClient
\* as a no-op, however many such calls there are: client, isInitialized and
\* msalApp stay as they are, and no token is validated, no AZURE_* variable
\* read, no confidential-client application constructed, no issuer asked
\* and no client built, whatever the environment holds by then.
C17_InitializeNoOpOnceReady ==
  [][(isInitialized /\ CallStarts) =>
       /\ UNCHANGED <<client, isInitialized, msalApp, built>>
       /\ events' \cap {"attempt", "validateToken", "readAzureInit",
                         "newMsalApp", "issuerRequest", "newClient"} = {}
       /\ \E method \in {"getAuthStatus", "getClient"} :
            calls' = calls (+) SetToBag({Call(method, "afterInit")})]_vars

\* The session is initialized with the one issuer-backed client ever built,
\* and a call has just started: it stands past initializeClient beside
\* another call, and its step did nothing to the outside (with the
\* environment unchanged no other step leaves both events and ret empty)
C17_NoOpCallStarted ==
  /\ isInitialized
  /\ built = <<"dynamic">>
  /\ envChanges = 0
  /\ calls = SetToBag({Call("getAuthStatus", "afterInit"),
                       Call("getClient", "afterInit")})
  /\ events = {}
  /\ ret = NoReturn

\* The middle segment decodes and parses, and its audience claim is the
\* Graph audience or an array that contains it
GraphAudienceClaimed(seg) ==
  LET payload == DecodePayload(seg) IN
  /\ ~payload.threw
  /\ \/ payload.aud = GRAPH_AUDIENCE
     \/ payload.isArray /\ \E i \in DOMAIN payload.audArray :
                               payload.audArray[i] = GRAPH_AUDIENCE

\* C18: validateToken returns the token it was given, unchanged, when the
\* token has exactly three segments between its dots and its middle segment
\* base64-decodes and parses to a value whose aud is
\* https://graph.microsoft.com or an array containing it; for every other
\* token (another number of segments, a payload that does not decode or
\* parse, a null payload, no aud, another audience) it returns undefined,
\* and in every case it returns.
C18_ValidateTokenAcceptsGraphAudience ==
  validated.done =>
    IF Len(jwt) = 3 /\ GraphAudienceClaimed(jwt[2])
      THEN validated.value = jwt
      ELSE validated.value = NoToken

\* validateToken has returned, unchanged, a token of three segments with an
\* empty signature whose audience array holds the Graph audience last
C18_ArrayAudienceAccepted ==
  /\ jwt = <<"header", PayloadGraphLast, "">>
  /\ validated = [done |-> TRUE, value |-> jwt]

----------------------------------------------------------------------------
(* Properties of the tool handlers *)

\* Sequence m occurs in sequence text
Contains(text, m) ==
  \E i \in 1..(Len(text) + 1) :
    /\ i + Len(m) - 1 <= Len(text)
    /\ SubSeq(text, i, i + Len(m) - 1) = m

\* The message a response to a failure is to carry: the Error's own, and
\* "Unknown error occurred" for anything that is not an Error
SurfacedMessage ==
  IF thrown.type = "Error" THEN thrown.message ELSE UnknownErrorMessage

----------------------------------------------------------------------------
(* Properties of the start of the process *)

\* C20: once validateEnv has run, if AUTH_TOKEN is set (non-empty) it has
\* reported nothing and has not ended the process, whichever of the three
\* AZURE_* variables are missing; otherwise it has ended the process with
\* status 1 exactly when at least one of AZURE_TENANT_ID, AZURE_CLIENT_ID,
\* AZURE_CLIENT_SECRET is missing. It runs before the server is made and
\* any tool is registered, and after its exit nothing is started.
C20_ValidateEnvBeforeStart ==
  /\ mainAt # "validateEnv" =>
       IF TruthyToken(env.AUTH_TOKEN)
         THEN exited.by # "validateEnv" /\ reported = << >>
         ELSE (exited = Exit(1, "validateEnv")) <=> GrantVariableMissing(env)
  /\ mainAt = "validateEnv" => registered = << >> /\ exited = NoExit
  /\ exited.by = "validateEnv" => registered = << >> /\ mainAt = "exited"

\* The server is connected in a process that has AUTH_TOKEN and none of the
\* three AZURE_* variables
C20_ServingOnTokenAlone ==
  /\ mainAt = "serving"
  /\ exited = NoExit
  /\ env = [NoConfiguration EXCEPT !.AUTH_TOKEN = WrongAudienceToken]

----------------------------------------------------------------------------
(* Further properties of the session *)

\* C25: calls that start while the session is uninitialized, before any of
\* them completes, each pass the isInitialized check, each ask the issuer
\* and each build a client.  With a full credential-grant configuration and
\* while the issuer and the probe succeed, none of them fails: the stored
\* client is always the one built last, the session is initialized once no
\* attempt is pending, every getClient() call returns the stored client and
\* every getAuthStatus() call reports isAuthenticated:true.
C25_ConcurrentInitTolerated ==
  GrantRunClean =>
    /\ client # NoClient => client = DynamicClient(Len(built))
    /\ \A i \in DOMAIN built : built[i] = "dynamic"
    /\ (Quiet /\ calls # EmptyBag) => isInitialized
    /\ ret.method = "getClient" => ret.result = ClientResult(client)
    /\ ret.method = "getAuthStatus" =>
         ret.result = StatusTrue(env.AZURE_TENANT_ID, env.AZURE_CLIENT_ID)

\* Two getClient() calls both asked the issuer and both built a client; both
\* have returned, the first the first client and the second the second,
\* which is the stored one
C25_BothBuiltBothReturned ==
  /\ GrantRunClean
  /\ calls = EmptyBag
  /\ built = <<"dynamic", "dynamic">>
  /\ isInitialized
  /\ client = DynamicClient(2)
  /\ handedOut = {DynamicClient(1), DynamicClient(2)}
  /\ ret = Returned("getClient", ClientResult(client))

\* C26: the session is never torn down.  Once a client has been built,
\* isInitialized is true and client is defined in every later state,
\* whatever the environment has become and whichever probes or token
\* requests have failed since; every isAuthenticated() then returns true and
\* every getClient() then resolves to a client.
C26_NeverTornDown ==
  built # << >> =>
    /\ isInitialized
    /\ client # NoClient
    /\ ret.method = "isAuthenticated" => ret.result = BoolResult(TRUE)
    /\ ret.method = "getClient" => ret.result = ClientResult(client)

\* After the session became Ready a concurrent attempt was refused by the
\* issuer, a probe failed and the environment lost its configuration;
\* isAuthenticated() has just returned true
C26_StillReadyAfterEverything ==
  /\ built # << >>
  /\ initFailed
  /\ probeFailed
  /\ envChanges = 1
  /\ ~TruthyToken(env.AUTH_TOKEN)
  /\ ~AzureConfigured(env)
  /\ ret = Returned("isAuthenticated", BoolResult(TRUE))

\* C27: between any two steps of the callers, that is wherever a call is
\* suspended or has returned and another caller can run, client is defined
\* exactly when isInitialized is true, and isAuthenticated() returns that
\* common value.
C27_ClientIffInitialized ==
  /\ client # NoClient <=> isInitialized
  /\ ret.method = "isAuthenticated" =>
       /\ ret.result = BoolResult(isInitialized)
       /\ ret.result = BoolResult(client # NoClient)

\* An attempt has just built the client and set the flag while another call
\* is still suspended at the issuer
C27_SetTogetherBesideSuspendedCall ==
  /\ "newClient" \in events
  /\ isInitialized
  /\ client = DynamicClient(1)
  /\ Call("getClient", "issuer") \in Pending
  /\ Call("getAuthStatus", "afterInit") \in Pending

\* C30: whenever the stored client, or a client a call handed out, has the
\* issuer-backed supplier, msalApp is defined, and no invocation of a
\* supplier fails with "MSAL not initialized".  msalApp is assigned only by
\* a call that starts with no AUTH_TOKEN and all three AZURE_* variables
\* set, from those variables, and by no other step: a token request of
\* initialization that is refused or answered with nothing leaves msalApp
\* set and client as it was.
C30_DynamicClientHasMsalApp ==
  /\ [](/\ client.supplier = "dynamic" => msalApp.constructed
        /\ \A c \in handedOut : c.supplier = "dynamic" => msalApp.constructed
        /\ ret.method = "getAccessToken" /\ ret.result.kind = "tokenError" =>
             ret.result.message # MsalNotInitializedMessage)
  /\ [][msalApp' # msalApp =>
          /\ CallStarts
          /\ "newMsalApp" \in events'
          /\ ~TruthyToken(env.AUTH_TOKEN)
          /\ AzureConfigured(env)
          /\ msalApp' = ConfidentialClientApplication(env)]_vars
  /\ [][(\E x \in Attempting : Leaves(x)) /\ "newClient" \notin events' =>
          /\ msalApp.constructed
          /\ UNCHANGED <<msalApp, client>>]_vars

\* The only token request of initialization was refused: msalApp is set and
\* there is no client
C30_AppKeptAfterRefusal ==
  /\ "issuerError" \in events
  /\ built = << >>
  /\ client = NoClient
  /\ msalApp = ConfidentialClientApplication(env)
  /\ envChanges = 0

\* C28: when every issuer request and every probe is eventually answered,
\* every getAuthStatus() and getClient() call completes: whenever calls are
\* in progress, eventually none is.  No call waits for another: every call
\* in progress can take its next step whatever the other calls are doing,
\* and a call past initialization is never suspended at the issuer again.
C28_EveryCallCompletes ==
  /\ (calls # EmptyBag) ~> (calls = EmptyBag)
  /\ [](\A x \in Pending : ENABLED (Continue(x) /\ Counted))
  /\ [][\A x \in AllCalls :
          CopiesIn(x, calls') > CopiesIn(x, calls) /\ x.at = "issuer" =>
            BagCardinality(calls') > BagCardinality(calls)]_vars

\* All the calls of the run have been started, concurrently from an
\* uninitialized session so that each built a client, and all have completed
C28_AllCallsCompleted ==
  /\ started = MaxCalls
  /\ calls = EmptyBag
  /\ Len(built) = 2
  /\ ret.method = "getAuthStatus"

----------------------------------------------------------------------------
(* Properties of the handler bodies *)

\* The summaries of the teams whose fetch succeeded, in the order of the ids
RECURSIVE Succeeded(_, _)
Succeeded(ids, outcomes) ==
  IF ids = << >> \/ outcomes = << >>
    THEN << >>
    ELSE (IF Head(outcomes) = "team"
            THEN <<TeamSummary(Team(Head(ids)))>>
            ELSE << >>)
         \o Succeeded(Tail(ids), Tail(outcomes))

\* id is the trimmed, non-empty text between two commas of s
ListedIn(id, s) ==
  /\ id # << >>
  /\ Head(id) # " "
  /\ id[Len(id)] # " "
  /\ \A i \in DOMAIN id : id[i] # ","
  /\ Contains(s, id)

\* C22: when TEAM_IDS is set (non-empty), list_teams requests
\* GET /teams/{id} once for each trimmed, non-empty id of the list, one after
\* the other in list order, whatever the earlier requests answered; a
\* request that fails adds nothing and ends nothing.  The response is the
\* JSON list of the summaries of exactly the teams whose request succeeded,
\* in list order, and the text "No teams found matching TEAM_IDS filter.",
\* not an error, when none did.
C22_ListTeamsSkipsFailedFetch ==
  (tool = "list_teams" /\ TeamIdsGiven(input) /\ toolAt \in {"team", "done"}
     /\ thrown = NoFailure) =>
    LET ids == local.teamIds IN
    /\ \A i \in DOMAIN ids : ListedIn(ids[i], input.TEAM_IDS)
    /\ LET parts == Split(input.TEAM_IDS, ",") IN
       Len(ids) = Cardinality({i \in DOMAIN parts :
                                 \E j \in DOMAIN parts[i] : parts[i][j] # " "})
    /\ \A i \in DOMAIN requests : requests[i] = TeamRequest(ids[i])
    /\ Len(requests) = Len(local.outcomes) + (IF toolAt = "team" THEN 1 ELSE 0)
    /\ toolAt = "done" =>
         /\ Len(requests) = Len(ids)
         /\ response =
              IF \A i \in DOMAIN ids : local.outcomes[i] # "team"
                THEN Resolved(NoTeamsMatchingText, FALSE)
                ELSE Json(Succeeded(ids, local.outcomes))

\* TEAM_IDS is "a, b": the request for a was rejected, the one for b was
\* made all the same and succeeded, and the response lists b alone
C22_SecondFetchedAfterFailure ==
  /\ tool = "list_teams"
  /\ input = [set |-> TRUE, TEAM_IDS |-> <<"a", ",", " ", "b">>]
  /\ toolAt = "done"
  /\ requests = <<TeamRequest(<<"a">>), TeamRequest(<<"b">>)>>
  /\ local.outcomes = <<"rejects", "team">>
  /\ response = Json(<<TeamSummary(Team(<<"b">>))>>)

RECURSIVE BagOf(_)
BagOf(seq) ==
  IF seq = << >> THEN EmptyBag
  ELSE SetToBag({Head(seq)}) (+) BagOf(Tail(seq))

\* The list a response of one of the two tools carries, and its count
ListOf(r) ==
  IF tool = "get_channel_messages" THEN r.json.messages ELSE r.json.replies
CountOf(r) ==
  IF tool = "get_channel_messages" THEN r.json.totalReturned
  ELSE r.json.totalReplies

\* C23: when the Graph response has items, get_channel_messages responds
\* with their summaries ordered by the time of createdDateTime, newest
\* first, and get_channel_message_replies with theirs oldest first (an item
\* without createdDateTime counting as the oldest); the list holds every
\* item of the response once and totalReturned, or totalReplies, is their
\* number.
C23_MessagesSortedPermutation ==
  (tool \in MessagesTools /\ toolAt = "done" /\ thrown = NoFailure
     /\ ~local.isNull /\ local.value # << >>) =>
    LET list == ListOf(response) IN
    /\ response.kind = "resolved"
    /\ BagOf(list) =
         BagOf([i \in DOMAIN local.value |-> MessageSummary(local.value[i])])
    /\ CountOf(response) = Len(local.value)
    /\ Len(list) = Len(local.value)
    /\ \A i, j \in DOMAIN list :
         i < j =>
           IF tool = "get_channel_messages"
             THEN GetTime(list[i].createdDateTime)
                    >= GetTime(list[j].createdDateTime)
             ELSE GetTime(list[i].createdDateTime)
                    <= GetTime(list[j].createdDateTime)

\* The messages of 10:00, 12:00 and 11:00 came in that order and
\* get_channel_messages has responded with the second, the third and the
\* first
C23_NewestFirstReturned ==
  /\ tool = "get_channel_messages"
  /\ toolAt = "done"
  /\ thrown = NoFailure
  /\ ~local.isNull
  /\ local.value = <<ChatMessage(1, "2024-01-01T10:00:00Z"),
                     ChatMessage(2, "2024-01-01T12:00:00Z"),
                     ChatMessage(3, "2024-01-01T11:00:00Z")>>
  /\ response.json.totalReturned = 3
  /\ response.json.messages =
       <<MessageSummary(local.value[2]), MessageSummary(local.value[3]),
         MessageSummary(local.value[1])>>

----------------------------------------------------------------------------
(* Properties of the handlers that send a message *)

\* A call that settled in one of the outcomes
HasStep(call, outcomes) ==
  \E i \in DOMAIN local.steps :
    local.steps[i].call = call /\ local.steps[i].outcome \in outcomes

\* The message has been posted
Posted == \E i \in DOMAIN requests : requests[i].method = "POST"

\* The requests that carry a message
MessagesSent == SelectSeq(requests, LAMBDA r : "payload" \in DOMAIN r)

\* The handler has returned an error response
ErrorReturned == response.kind = "resolved" /\ response.isError

\* An image was asked for, with a URL or with data
ImageRequested ==
  tool \in ImageTools /\ (input.imageUrl # "" \/ input.imageData # "")

DownloadFailed == HasStep("imageUrlToBase64", {"null", "rejects"})
UploadFailed == HasStep("uploadImageAsHostedContent", {"null", "rejects"})
TypeUnsupported ==
  input.imageContentType # "" /\ ~isValidImageType(input.imageContentType)

\* C21: in send_channel_message and reply_to_channel_message, when an image
\* is requested and the download from imageUrl fails, the supplied image
\* type is unsupported, or the upload fails, the handler returns an isError
\* response and the message POST is never issued; the POST happens only
\* after every requested image step has succeeded, that is, with the
\* requested image uploaded.
C21_ImageFailureNeverPosts ==
  /\ ImageRequested /\ (DownloadFailed \/ TypeUnsupported \/ UploadFailed)
       => ~Posted /\ (toolAt = "done" => ErrorReturned)
  /\ ImageRequested /\ Posted
       => HasStep("uploadImageAsHostedContent", {"attachment"})

\* C21, as far as the code goes: imageUrlToBase64 resolving with null, the
\* type of imageData failing isValidImageType, and the upload resolving
\* with null each end the handler in an isError response without a POST;
\* no image step has failed when the POST is made; and the POST follows an
\* upload exactly when imageUrl, or imageData with imageContentType, was
\* given.
C21_ImageStepsAsCoded ==
  /\ (\/ HasStep("imageUrlToBase64", {"null"})
      \/ HasStep("isValidImageType", {"false"})
      \/ HasStep("uploadImageAsHostedContent", {"null"}))
       => ~Posted /\ toolAt = "done" /\ ErrorReturned
  /\ Posted
       => /\ ~DownloadFailed
          /\ ~UploadFailed
          /\ ~HasStep("isValidImageType", {"false"})
          /\ HasStep("uploadImageAsHostedContent", {"attachment"})
               <=> \/ input.imageUrl # ""
                   \/ input.imageData # "" /\ input.imageContentType # ""
          /\ \A i \in DOMAIN MessagesSent :
               "attachments" \in DOMAIN MessagesSent[i].payload
                 <=> HasStep("uploadImageAsHostedContent", {"attachment"})

\* imageData came without imageContentType and the message was posted, with
\* no attachment and no error
C21_PostedWithoutRequestedImage ==
  /\ tool = "send_channel_message"
  /\ input.imageUrl = ""
  /\ input.imageData # ""
  /\ input.imageContentType = ""
  /\ toolAt = "done"
  /\ Posted
  /\ ~ErrorReturned
  /\ local.attachments = << >>

----------------------------------------------------------------------------
(* Properties of download_message_hosted_content *)

\* The content ids the downloads asked for so far were made for
Attempted ==
  LET downloads ==
        SelectSeq(requests, LAMBDA r : Includes(r.path, "hostedContents"))
  IN  [i \in DOMAIN downloads |-> downloads[i].path[Len(downloads[i].path) - 1]]

\* The body of the message has no reference to a hosted content
NoHostedContent ==
  \A i \in DOMAIN local.message.content :
    local.message.content[i].kind = "text"

\* C29: download_message_hosted_content has exactly one result entry for
\* every content id it attempted (and none yet for the one under way); a
\* download that failed is an error entry and never what the handler's
\* catch clause takes, the remaining ids being attempted after it; in the
\* response successCount + errorCount = totalContentItems = the number of
\* entries; with hostedContentId given only that id is attempted; and with
\* no hosted content in the body the handler returns an isError response
\* and makes no download.
C29_OneEntryPerAttempt ==
  /\ Len(Attempted) - Len(local.results)
       = (IF toolAt \in {"download", "writeFile"} THEN 1 ELSE 0)
  /\ \A i \in DOMAIN local.results : local.results[i].id = Attempted[i]
  /\ \A i \in DOMAIN Attempted : Attempted[i] = local.contentIds[i]
  /\ \A i \in DOMAIN local.results :
       "error" \in DOMAIN local.results[i] <=> i \in local.failed
  /\ thrown.from \notin {"download", "writeFile"}
  /\ toolAt = "done" /\ local.contentIds # << >> /\ thrown = NoFailure
       => /\ Len(Attempted) = Len(local.contentIds)
          /\ response.kind = "resolved"
          /\ response.json.contents = local.results
          /\ response.json.totalContentItems = Len(local.results)
          /\ response.json.successCount + response.json.errorCount
               = response.json.totalContentItems
  /\ input.hostedContentId # ""
       => \A i \in DOMAIN Attempted : Attempted[i] = input.hostedContentId
  /\ input.hostedContentId = "" /\ toolAt = "done" /\ thrown = NoFailure
       => \A i \in DOMAIN local.message.content :
            local.message.content[i].kind # "text"
              => Includes(Attempted, local.message.content[i].id)
  /\ toolAt \notin {"getClient", "message"} /\ thrown = NoFailure
       /\ NoHostedContent
       => /\ Attempted = << >>
          /\ toolAt = "done"
          /\ ErrorReturned

\* Two hosted contents were attempted: the first download failed, the
\* second was made all the same, and the response counts one of each
C29_SecondDownloadedAfterFailure ==
  /\ tool = "download_message_hosted_content"
  /\ toolAt = "done"
  /\ Attempted = <<"a", "b">>
  /\ local.failed = {1}
  /\ "error" \in DOMAIN local.results[1]
  /\ "base64Data" \in DOMAIN local.results[2]
  /\ response.json.successCount = 1
  /\ response.json.errorCount = 1
  /\ response.json.totalContentItems = 2

====
